---- MODULE Spec2Model ----
(***************************************************************************)
(* SIGMArec detection-and-control engine: the bounded state tape with      *)
(* transition patterns (StateMachine), the debounced detectors             *)
(* (BaseStateDetector), log classification (LogGame / LogState), the       *)
(* StateManager, the DetectionCoordinator tick, the RecordingProcessor     *)
(* and the OBSController with the recording backend behind it.             *)
(***************************************************************************)
EXTENDS Naturals, Integers, Sequences, FiniteSets, TLC

\* ------------------------------------------------------------------ bounds
MaxHistoryArg == 4      \* largest max_history handed to StateMachine(...)
MaxRaw == 6             \* longest raw-detection sequence fed to one detector
MaxThreshold == 3       \* largest detection_threshold tried
MaxWindow == 3          \* longest log window classified
MaxEvents == 1          \* backend events in flight
MaxGames == 2           \* games in the list of a lone game detector
MaxPushes == 6          \* accepted pushes between two clears of a lone machine
MaxProbes == 4          \* failed probes in a row that are told apart
MaxStops == 2           \* completion events of a lone DetectionEngine in flight
MaxWorkers == 2         \* its workers started and not yet run
MaxTimers == 1          \* _delayed_start threads asleep at a time

\* --------------------------------------------------------------- constants
None == "None"
NoGame == "NoGame"
NoTs == "None"
\* timestamps of log entries: strings the program only compares for equality
Timestamps == {"t1", "t2"}
WILDCARD == "*"
detections_required == 2
coordinator_max_history == 3

StateNames == {"Select", "Playing", "Result", "Unknown"}
PixelRaw == {"Select", "Playing", "Result", None}
LogRaw == {"Select", "Playing", "Result", "Unknown", None}
Games == {"pix", "log"}
IsLogGame(g) == g = "log"
IsPixelGame(g) == g = "pix"

VARIABLES
    \* StateMachine / StateContext (state_manager.py, state_machine.py)
    max_history, machine,
    current_game, current_state, previous_state, last_playing_timestamp,
    \* the two BaseStateDetector instances of the coordinator
    detection_threshold, pixel_detector, log_detector,
    \* RecordingProcessor
    delete_next_recording, restart_after_stop,
    \* OBSController
    recording_active, connection_lost, clients,
    \* the backend (OBS): whether it answers requests, its recording, scene and
    \* video settings, and the event stream towards the controller
    backendUp, obsRec, obsScene, obsVideo, events,
    \* AppSettings: the scenes and video tables of config.toml
    scenes, video,
    \* Application: the tick loop has been left (_shutdown_requested)
    shutdown_requested,
    \* the tick thread: "idle", or asleep in result_wait inside _stop_recording
    tickPc,
    \* the connection thread of the controller: "initial" in
    \* _attempt_initial_connection, then "keep_alive" in _continuous_keep_alive
    kaPc,
    \* OBSController._keep_alive_stop_event ("None" until the keep-alive
    \* thread is started, then "clear" or "set"), and whether shutdown() has
    \* been called
    keep_alive_stop_event, shutdown_called,
    \* what the last step did (calls, requests, file outcome)
    ev,
    \* bookkeeping of the claims: a start request is open (no stop request, no
    \* STOPPED event since), and the progress of the start_play scenario
    startOpen, scen,
    \* failed probes of the connection thread in a row, and for each shared
    \* flag the threads seen to change it
    failed_probes, writers,
    \* state machine on its own: the states pushed since the last clear,
    \* repeats of the one before left out
    pushed,
    \* game detector on its own: the configured games, the window in focus
    \* and what get_active_game gave for it
    gd,
    \* debouncer on its own: raw observations since the reset, last output
    rawSeq, emitted,
    \* log classification on its own: the window and the state it classifies as
    entries, classified,
    \* the monolithic DetectionEngine on its own: its two flags, its
    \* recording_active, the stop events not yet delivered, the position of
    \* handle_recording_completed, the workers started and not yet run (each
    \* with the value delete_next had at delivery) and what the last worker did
    engine,
    \* state manager against a log: the timestamp of the latest Playing entry
    \* the log holds, and whether a restart has been reported since that entry
    \* was written
    log_latest, restart_seen,
    \* the settle delay: whether the settings object has scene_change_delay,
    \* whether the last scene switch is less than that delay ago, and the
    \* _delayed_start threads started and not yet woken
    has_scene_change_delay, settle_pending, delayed_starts,
    \* OBSController._event_handlers, and for the last event the handlers
    \* called, in order, the errors logged and whether an exception left
    \* the controller
    event_handlers, fan

tapeVars == <<max_history, machine>>
ctxVars == <<current_game, current_state, previous_state, last_playing_timestamp>>
detVars == <<detection_threshold, pixel_detector, log_detector>>
recVars == <<delete_next_recording, restart_after_stop>>
obsVars == <<recording_active, connection_lost, clients>>
backendVars == <<backendUp, obsRec, obsScene, obsVideo, events>>
cfgVars == <<scenes, video>>
kaVars == <<kaPc, keep_alive_stop_event, shutdown_called>>
ghostVars == <<ev, startOpen, scen>>
debounceVars == <<rawSeq, emitted>>
logVars == <<entries, classified>>
restartVars == <<log_latest, restart_seen>>
fanVars == <<event_handlers, fan>>
extVars == <<engine, restartVars, fanVars>>
timerVars == <<has_scene_change_delay, settle_pending, delayed_starts>>

vars == <<tapeVars, ctxVars, detVars, recVars, obsVars, backendVars, cfgVars,
          shutdown_requested, tickPc, kaVars, ghostVars, failed_probes, writers,
          pushed, gd, debounceVars, logVars, extVars, timerVars>>

\* ================================ DetectionEngine (src/detection/engine.py)
\* DetectionEngine.__init__ (the two flags) and DetectionState
EngineInit ==
    [delete_next_recording |-> FALSE, restart_after_stop |-> FALSE,
     recording_active |-> FALSE, stops |-> 0, pc |-> "idle", workers |-> <<>>,
     last |-> [ran |-> FALSE, at_delivery |-> FALSE, deleted |-> FALSE,
               finalized |-> FALSE]]

\* DetectionEngine._start_recording
engine_start_recording(e) == [e EXCEPT !.recording_active = TRUE]

\* DetectionEngine._stop_recording; the backend answers the stop request with
\* a completion event
engine_stop_recording(e) ==
    [e EXCEPT !.recording_active = FALSE, !.stops = @ + 1]

\* DetectionEngine._on_no_active_game, the part about the recording
engine_on_no_active_game(e) ==
    LET e1 == [e EXCEPT !.restart_after_stop = FALSE]
    IN  IF e1.recording_active
        THEN engine_stop_recording([e1 EXCEPT !.delete_next_recording = TRUE])
        ELSE e1

\* DetectionEngine.handle_recording_completed up to Thread(...).start()
engine_spawn_worker(e) ==
    [e EXCEPT !.stops = @ - 1, !.pc = "spawned",
              !.workers = Append(@, e.delete_next_recording)]

\* DetectionEngine.handle_recording_completed after Thread(...).start()
engine_after_spawn(e) ==
    LET e1 == [e EXCEPT !.delete_next_recording = FALSE, !.pc = "idle"]
    IN  IF e1.restart_after_stop
        THEN engine_start_recording([e1 EXCEPT !.restart_after_stop = FALSE])
        ELSE e1

\* _handle_recording_in_thread of worker i: reads the flag when it runs
engine_worker(e, i) ==
    [e EXCEPT !.workers = SubSeq(@, 1, i - 1) \o SubSeq(@, i + 1, Len(@)),
              !.last = [ran |-> TRUE, at_delivery |-> e.workers[i],
                        deleted |-> e.delete_next_recording,
                        finalized |-> ~e.delete_next_recording]]

\* ============================================================ StateMachine
TransitionPattern(n, s) == [name |-> n, sequence |-> s]

\* StateManager._setup_transition_patterns
setup_transition_patterns ==
    << TransitionPattern("start_play", <<"Select", "Playing">>),
       TransitionPattern("start_play", <<"Select", "Unknown", "Playing">>),
       TransitionPattern("start_play", <<"Result", "Unknown", "Playing">>),
       TransitionPattern("discard_play", <<"Playing", "Select">>),
       TransitionPattern("discard_play", <<"Playing", "Unknown", "Select">>),
       TransitionPattern("stop_play", <<"Playing", "Result">>),
       TransitionPattern("stop_play", <<"Playing", "Unknown", "Result">>),
       TransitionPattern("restart", <<"Playing", "Unknown", "Playing">>),
       TransitionPattern("restart", <<"Playing", "Playing">>) >>

Max(a, b) == IF a >= b THEN a ELSE b

\* StateMachine.__init__: the capacity is max(2, max_history)
StateMachineInit(arg) == Max(2, arg)

EmptyMachine == [history |-> <<>>, last_matches |-> <<>>, patterns |-> <<>>]

\* the for-loop of add_patterns over add_pattern, from pattern k
RECURSIVE add_patterns_from(_, _, _)
add_patterns_from(m, patterns, k) ==
    IF k > Len(patterns) THEN m
    ELSE add_patterns_from(
             IF patterns[k].sequence = <<>> THEN m
             ELSE [m EXCEPT !.patterns = Append(@, patterns[k])],
             patterns, k + 1)

add_patterns(m, patterns) == add_patterns_from(m, patterns, 1)

\* the for-loop of _history_ends_with, from token i of the sequence (1-based)
RECURSIVE ends_with_from(_, _, _, _)
ends_with_from(h, sequence, start_index, i) ==
    IF i > Len(sequence) THEN TRUE
    ELSE IF sequence[i] # WILDCARD /\ sequence[i] # h[start_index + i] THEN FALSE
    ELSE ends_with_from(h, sequence, start_index, i + 1)

\* (variant: compares against the head of the history instead of its tail)
history_starts_with(h, sequence) ==
    IF Len(h) < Len(sequence) THEN FALSE
    ELSE ends_with_from(h, sequence, 0, 1)

history_ends_with(h, sequence) ==
    IF Len(h) < Len(sequence) THEN FALSE
    ELSE ends_with_from(h, sequence, Len(h) - Len(sequence), 1)

\* the for-loop of _match_tail_patterns, from pattern k of the registered list
RECURSIVE match_from(_, _, _)
match_from(h, patterns, k) ==
    IF k > Len(patterns) THEN <<>>
    ELSE IF history_ends_with(h, patterns[k].sequence)
         THEN <<patterns[k].name>> \o match_from(h, patterns, k + 1)
         ELSE match_from(h, patterns, k + 1)

match_tail_patterns(m) == match_from(m.history, m.patterns, 1)

\* (variant: no duplicate guard, the state is appended in any case)
push_state_forced(m, cap, new_state) ==
    LET h1 == Append(m.history, new_state)
        h2 == IF Len(h1) > cap THEN SubSeq(h1, Len(h1) - cap + 1, Len(h1)) ELSE h1
        m2 == [m EXCEPT !.history = h2]
    IN  [m2 EXCEPT !.last_matches = match_tail_patterns(m2)]

\* (variant: a full tape keeps its oldest states)
push_state_keep_oldest(m, cap, new_state) ==
    IF m.history # <<>> /\ m.history[Len(m.history)] = new_state
    THEN [m EXCEPT !.last_matches = <<>>]
    ELSE LET h1 == Append(m.history, new_state)
             h2 == IF Len(h1) > cap THEN SubSeq(h1, 1, cap) ELSE h1
             m2 == [m EXCEPT !.history = h2]
         IN  [m2 EXCEPT !.last_matches = match_tail_patterns(m2)]

push_state(m, cap, new_state) ==
    IF m.history # <<>> /\ m.history[Len(m.history)] = new_state
    THEN [m EXCEPT !.last_matches = <<>>]
    ELSE LET h1 == Append(m.history, new_state)
             h2 == IF Len(h1) > cap
                   THEN SubSeq(h1, Len(h1) - cap + 1, Len(h1))
                   ELSE h1
             m2 == [m EXCEPT !.history = h2]
         IN  [m2 EXCEPT !.last_matches = match_tail_patterns(m2)]

\* (variant: clear starts over with a fresh StateMachine)
clear_all(m) == EmptyMachine

clear(m) == [m EXCEPT !.history = <<>>, !.last_matches = <<>>]

get_last_matches(m) == m.last_matches

\* ======================================================= BaseStateDetector
ResetDetector == [last |-> None, n |-> 0]

\* (variant: confirms only on the tick the run reaches the threshold)
detect_state_once(d, raw, threshold) ==
    LET d2 == IF raw # d.last THEN [last |-> raw, n |-> 1]
              ELSE [d EXCEPT !.n = d.n + 1]
    IN  [det |-> d2, out |-> IF d2.n = threshold THEN raw ELSE None]

\* (variant: confirms one tick late, the run must exceed the threshold)
detect_state_late(d, raw, threshold) ==
    LET d2 == IF raw # d.last THEN [last |-> raw, n |-> 1]
              ELSE [d EXCEPT !.n = d.n + 1]
    IN  [det |-> d2, out |-> IF d2.n > threshold THEN raw ELSE None]

\* detect_state, with the result of _detect_raw_state passed in as raw
detect_state(d, raw, threshold) ==
    LET d2 == IF raw # d.last THEN [last |-> raw, n |-> 1]
              ELSE [d EXCEPT !.n = d.n + 1]
    IN  [det |-> d2, out |-> IF d2.n >= threshold THEN raw ELSE None]

reset_detection_state == ResetDetector

\* ================================================== LogPattern / LogState
\* strings are sequences of characters; "a in b" of Python is substring search
IsSubstring(a, b) ==
    \E k \in 0..(Len(b) - Len(a)) : SubSeq(b, k + 1, k + Len(a)) = a

\* LogPattern.matches([entry])
LogPatternMatches(pattern, entry) ==
    /\ IsSubstring(pattern.class_name, entry.class)
    /\ IsSubstring(pattern.method_name, entry.method)

EntryMatchesState(state, entry) ==
    \E k \in 1..Len(state.patterns) : LogPatternMatches(state.patterns[k], entry)

\* the for-loop of LogState.get_last_match_position, from entry i (1-based);
\* positions are Python's 0-based indices, -1 for no match
RECURSIVE last_match_from(_, _, _, _)
last_match_from(state, log_entries, i, last_match_pos) ==
    IF i > Len(log_entries) THEN last_match_pos
    ELSE last_match_from(state, log_entries, i + 1,
             IF EntryMatchesState(state, log_entries[i]) THEN i - 1 ELSE last_match_pos)

\* (variant: stops at the first matching entry)
RECURSIVE first_match_from(_, _, _)
first_match_from(state, log_entries, i) ==
    IF i > Len(log_entries) THEN -1
    ELSE IF EntryMatchesState(state, log_entries[i]) THEN i - 1
    ELSE first_match_from(state, log_entries, i + 1)

get_first_match_position(state, log_entries) == first_match_from(state, log_entries, 1)

get_last_match_position(state, log_entries) == last_match_from(state, log_entries, 1, -1)

\* the for-loop of LogGame.get_current_state over self.states.values(), from
\* state k, carrying (latest_state, latest_position)
RECURSIVE current_state_from(_, _, _, _, _)
current_state_from(states, context, k, latest_state, latest_position) ==
    IF k > Len(states) THEN latest_state
    ELSE LET last_match_pos == get_last_match_position(states[k], context)
         IN  IF last_match_pos > latest_position
             THEN current_state_from(states, context, k + 1, states[k].name, last_match_pos)
             ELSE current_state_from(states, context, k + 1, latest_state, latest_position)

\* LogGame.get_current_state; the result is the state's name
get_current_state(states, context) ==
    IF context = <<>> THEN None
    ELSE current_state_from(states, context, 1, None, -1)

\* a log game in the shape of the shipped beatoraja descriptor: classes and
\* methods shortened to one or two characters
LogGameStates ==
    << [name |-> "Select",  patterns |-> << [class_name |-> <<"s">>, method_name |-> <<"m">>],
                                            [class_name |-> <<"c", "s">>, method_name |-> <<"m">>] >>],
       [name |-> "Playing", patterns |-> << [class_name |-> <<"p">>, method_name |-> <<"c">>] >>],
       [name |-> "Result",  patterns |-> << [class_name |-> <<"r">>, method_name |-> <<"m">>] >>],
       [name |-> "Unknown", patterns |-> << [class_name |-> <<"p">>, method_name |-> <<"m">>] >>] >>

LogClasses == { <<"s">>, <<"c", "s">>, <<"p">>, <<"r">>, <<"p", "r">>, <<"o">> }
LogMethods == { <<"m">>, <<"c">>, <<"c", "m">> }
LogEntries == [class : LogClasses, method : LogMethods]

\* ===================================================== the program state
\* The handlers below are written as functions on one record holding the
\* variables they read and write; Cur is that record for the current state.
Cur ==
    [ max_history |-> max_history, machine |-> machine,
      current_game |-> current_game, current_state |-> current_state,
      previous_state |-> previous_state,
      last_playing_timestamp |-> last_playing_timestamp,
      detection_threshold |-> detection_threshold,
      pixel_detector |-> pixel_detector, log_detector |-> log_detector,
      delete_next_recording |-> delete_next_recording,
      restart_after_stop |-> restart_after_stop,
      recording_active |-> recording_active,
      connection_lost |-> connection_lost, clients |-> clients,
      backendUp |-> backendUp, obsRec |-> obsRec, obsScene |-> obsScene,
      obsVideo |-> obsVideo, events |-> events,
      scenes |-> scenes, video |-> video,
      shutdown_requested |-> shutdown_requested, tickPc |-> tickPc,
      ev |-> ev, startOpen |-> startOpen,
      has_scene_change_delay |-> has_scene_change_delay,
      settle_pending |-> settle_pending, delayed_starts |-> delayed_starts ]

Becomes(next) ==
    \E s \in {next} :
    /\ max_history' = s.max_history
    /\ machine' = s.machine
    /\ current_game' = s.current_game
    /\ current_state' = s.current_state
    /\ previous_state' = s.previous_state
    /\ last_playing_timestamp' = s.last_playing_timestamp
    /\ detection_threshold' = s.detection_threshold
    /\ pixel_detector' = s.pixel_detector
    /\ log_detector' = s.log_detector
    /\ delete_next_recording' = s.delete_next_recording
    /\ restart_after_stop' = s.restart_after_stop
    /\ recording_active' = s.recording_active
    /\ connection_lost' = s.connection_lost
    /\ clients' = s.clients
    /\ backendUp' = s.backendUp
    /\ obsRec' = s.obsRec
    /\ obsScene' = s.obsScene
    /\ obsVideo' = s.obsVideo
    /\ events' = s.events
    /\ scenes' = s.scenes
    /\ video' = s.video
    /\ shutdown_requested' = s.shutdown_requested
    /\ tickPc' = s.tickPc
    /\ ev' = s.ev
    /\ startOpen' = s.startOpen
    /\ has_scene_change_delay' = s.has_scene_change_delay
    /\ settle_pending' = s.settle_pending
    /\ delayed_starts' = s.delayed_starts

NoTransition == [is |-> FALSE, from_state |-> None, to_state |-> None,
                 triggered_patterns |-> <<>>]

\* the record of one step: who ran, what update_state did (branch, the
\* transition, the tape it found), which branch of process_transition acted,
\* the calls made on the controller, the requests sent to the backend (reqs
\* counts all of them), the exception that left the handler, the value a
\* controller call returned, what a connection attempt returned, the event
\* subscriptions it made and the failed probes before it, and for a
\* completion event the take it completes and what happened to its file
EvOf(kind) ==
    [ kind |-> kind, branch |-> "none", act |-> "none",
      transition |-> NoTransition, tape |-> <<>>,
      startCalls |-> 0, startReqs |-> 0, stopCalls |-> 0, stopReqs |-> 0,
      reqs |-> 0, raised |-> "none", result |-> None,
      ok |-> FALSE, registered |-> 0, probesBefore |-> 0,
      sceneReqs |-> 0, sceneTimed |-> FALSE, deferred |-> FALSE,
      has_lastplay |-> FALSE, can_save |-> FALSE,
      deleted |-> FALSE, finalized |-> FALSE,
      openBefore |-> FALSE, take |-> "none", then |-> "none" ]

ToSet(seq) == {seq[i] : i \in 1..Len(seq)}

\* RecordStateChanged events as the backend sends them.  A STOPPED event
\* carries the take it completes (its output_path), named here by the action
\* whose stop request ended the take, "overlapped" when that request was
\* accepted while earlier events were still undelivered; then names the last
\* action taken by the tick thread while the event was in flight.
StartedEvent == [output_state |-> "STARTED", take |-> "none", then |-> "none"]

StoppedEvent(s) ==
    [output_state |-> "STOPPED",
     take |-> IF s.events = <<>> THEN s.ev.act ELSE "overlapped",
     then |-> "none"]

\* the tick thread acts: noted in the step record and on the STOPPED events
\* still in flight
Acts(s, act) ==
    [s EXCEPT !.ev.act = act,
              !.events = [i \in DOMAIN @ |->
                             IF @[i].output_state = "STOPPED"
                             THEN [@[i] EXCEPT !.then = act] ELSE @[i]]]

\* =========================================================== OBSController
is_connected(s) == s.clients /\ ~s.connection_lost

\* (variant: stop_recording without the is_connected test)
stop_recording_unchecked(s) ==
    LET s0 == [s EXCEPT !.ev.stopCalls = @ + 1]
    IN  IF s0.recording_active
        THEN [s0 EXCEPT !.ev.stopReqs = @ + 1, !.ev.reqs = @ + 1,
                        !.startOpen = FALSE, !.connection_lost = TRUE]
        ELSE s0

\* OBSController.stop_recording; a request raises when the backend does not
\* answer, and the backend refuses a stop while it is idle
stop_recording(s) ==
    LET s0 == [s EXCEPT !.ev.stopCalls = @ + 1]
    IN  IF s0.recording_active /\ is_connected(s0)
        THEN LET s1 == [s0 EXCEPT !.ev.stopReqs = @ + 1, !.ev.reqs = @ + 1,
                                  !.startOpen = FALSE]
             IN  IF s1.backendUp /\ s1.obsRec
                 THEN [s1 EXCEPT !.obsRec = FALSE,
                                  !.events = Append(@, StoppedEvent(s1))]
                 ELSE [s1 EXCEPT !.connection_lost = TRUE]
        ELSE s0

\* OBSController.start_recording; the backend refuses a start while recording
start_recording(s) ==
    LET s0 == [s EXCEPT !.ev.startCalls = @ + 1]
    IN  IF ~s0.recording_active /\ is_connected(s0)
        THEN LET s1 == [s0 EXCEPT !.ev.startReqs = @ + 1, !.ev.reqs = @ + 1,
                                  !.ev.openBefore = s.startOpen,
                                  !.startOpen = TRUE]
             IN  IF s1.backendUp /\ ~s1.obsRec
                 THEN [s1 EXCEPT !.obsRec = TRUE, !.events = Append(@, StartedEvent)]
                 ELSE [s1 EXCEPT !.connection_lost = TRUE]
        ELSE s0

\* OBSController.get_current_scene: [s, scene]
get_current_scene(s) ==
    IF ~is_connected(s) THEN [s |-> s, scene |-> None]
    ELSE IF s.backendUp
    THEN [s |-> [s EXCEPT !.ev.reqs = @ + 1], scene |-> s.obsScene]
    ELSE [s |-> [s EXCEPT !.ev.reqs = @ + 1, !.connection_lost = TRUE],
          scene |-> None]

\* OBSController.set_current_scene
set_current_scene(s, scene_name) ==
    LET switch(r) ==
            IF r.scene = scene_name THEN r.s
            ELSE IF r.s.backendUp
            THEN [r.s EXCEPT !.ev.reqs = @ + 1, !.ev.sceneReqs = @ + 1,
                             !.obsScene = scene_name]
            ELSE [r.s EXCEPT !.ev.reqs = @ + 1, !.ev.sceneReqs = @ + 1,
                             !.connection_lost = TRUE]
    IN  IF ~is_connected(s) THEN s ELSE switch(get_current_scene(s))

\* the scenes the backend has
SceneList == <<"menu", "game", "other">>

\* OBSController.get_scene_list: [s, scenes]
get_scene_list(s) ==
    IF ~is_connected(s) THEN [s |-> s, scenes |-> <<>>]
    ELSE IF s.backendUp
    THEN [s |-> [s EXCEPT !.ev.reqs = @ + 1], scenes |-> SceneList]
    ELSE [s |-> [s EXCEPT !.ev.reqs = @ + 1, !.connection_lost = TRUE],
          scenes |-> <<>>]

\* OBSController.get_video_settings: [s, settings]
get_video_settings(s) ==
    IF ~is_connected(s) THEN [s |-> s, settings |-> None]
    ELSE IF s.backendUp
    THEN [s |-> [s EXCEPT !.ev.reqs = @ + 1], settings |-> s.obsVideo]
    ELSE [s |-> [s EXCEPT !.ev.reqs = @ + 1, !.connection_lost = TRUE],
          settings |-> None]

\* OBSController.set_video_settings: the settings are read, merged with the
\* wanted ones (every field of which is given) and written
set_video_settings(s, obssettings) ==
    IF ~is_connected(s) THEN s
    ELSE IF ~s.backendUp
    THEN [s EXCEPT !.ev.reqs = @ + 1, !.connection_lost = TRUE]
    ELSE [s EXCEPT !.ev.reqs = @ + 2, !.obsVideo = obssettings]

\* the video table of config.toml: absent, complete (Base, Output and FPS
\* under Default), or with FPS alone
VideoTables == {"none", "full", "partial"}

\* OBSController.get_game_video_settings: [raised, settings]; with a table
\* that lacks Base, Output or FPS, parse_resolution or parse_fps gives None
\* and the unpacking or the subscript raises TypeError
get_game_video_settings(s, game) ==
    IF s.video = "none" THEN [raised |-> FALSE, settings |-> None]
    ELSE IF s.video = "partial" THEN [raised |-> TRUE, settings |-> None]
    ELSE [raised |-> FALSE, settings |-> "v_game"]

\* ========================================================== SceneProcessor
\* the scenes tables, as ConfigValidator.validate_scenes leaves them:
\*   "none"     no [scenes] section                      {}
\*   "default"  [scenes] Default = "menu"                {Default: {Default: menu}}
\*   "states"   [scenes] Playing = "game"                {Default: {Playing: game}}
\*   "game"     [scenes.pix] Playing = "game"            {pix: {Playing: game}}
\*   "full"     [scenes] Default = "menu", Playing = "game"
\*   "override" [scenes] Default = "menu"; [scenes.pix] Default = "game"
SceneTables == {"none", "default", "states", "game", "full", "override"}

SceneTable(name) ==
    IF name = "default" THEN [g \in {"Default"} |-> [st \in {"Default"} |-> "menu"]]
    ELSE IF name = "states" THEN [g \in {"Default"} |-> [st \in {"Playing"} |-> "game"]]
    ELSE IF name = "game" THEN [g \in {"pix"} |-> [st \in {"Playing"} |-> "game"]]
    ELSE IF name = "full"
    THEN [g \in {"Default"} |->
             [st \in {"Default", "Playing"} |->
                 IF st = "Playing" THEN "game" ELSE "menu"]]
    ELSE IF name = "override"
    THEN [g \in {"pix", "Default"} |->
             [st \in {"Default"} |-> IF g = "pix" THEN "game" ELSE "menu"]]
    ELSE [g \in {} |-> [st \in {} |-> None]]

\* AppSettings.get_scene_name: [raised, scene]; self.scenes["Default"] and
\* self.scenes["Default"]["Default"] raise KeyError when the key is absent
get_scene_name(s, game, state) ==
    LET tbl == SceneTable(s.scenes)
    IN  IF game \in DOMAIN tbl /\ state \in DOMAIN tbl[game]
        THEN [raised |-> FALSE, scene |-> tbl[game][state]]
        ELSE IF "Default" \notin DOMAIN tbl THEN [raised |-> TRUE, scene |-> None]
        ELSE IF state \in DOMAIN tbl["Default"]
        THEN [raised |-> FALSE, scene |-> tbl["Default"][state]]
        ELSE IF "Default" \in DOMAIN tbl["Default"]
        THEN [raised |-> FALSE, scene |-> tbl["Default"]["Default"]]
        ELSE [raised |-> TRUE, scene |-> None]

\* AppSettings has no field scene_change_delay
settings_has_scene_change_delay == FALSE

\* SceneProcessor.get_recording_delay_remaining
\* (1 stands for any time left)
get_recording_delay_remaining(s) ==
    IF ~s.has_scene_change_delay THEN 0
    ELSE IF s.settle_pending THEN 1 ELSE 0

\* (variant: the scene is set and the time taken without the comparison)
switch_scene_unconditional(s, g) ==
    LET switch(r) ==
            [set_current_scene(r.s, g.scene) EXCEPT
                 !.ev.sceneTimed = TRUE,
                 !.settle_pending = r.s.has_scene_change_delay]
    IN  IF g.raised THEN [s EXCEPT !.ev.raised = "KeyError"]
        ELSE IF g.scene = None THEN s
        ELSE switch(get_current_scene(s))

\* SceneProcessor.process_transition
\* the rest of process_transition and of process_game_change once the
\* scene name is looked up: g is what get_scene_name gave
switch_scene(s, g) ==
    LET switch(r) ==
            IF r.scene # g.scene
            THEN [set_current_scene(r.s, g.scene) EXCEPT
                      !.ev.sceneTimed = TRUE,
                      !.settle_pending = r.s.has_scene_change_delay]
            ELSE r.s
    IN  IF g.raised THEN [s EXCEPT !.ev.raised = "KeyError"]
        ELSE IF g.scene = None THEN s
        ELSE switch(get_current_scene(s))

scene_process_transition(s, transition) ==
    switch_scene(s, get_scene_name(s, s.current_game, transition.to_state))

\* SceneProcessor.process_game_change
scene_process_game_change(s, game) ==
    IF game = NoGame THEN switch_scene(s, get_scene_name(s, "", "Default"))
    ELSE s

\* ========================================================== VideoProcessor
\* VideoProcessor.process_game_change
video_process_game_change(s, game) ==
    LET apply(g, r) ==
            IF r.settings = None THEN r.s
            ELSE IF g.settings # r.settings THEN set_video_settings(r.s, g.settings)
            ELSE r.s
        wanted(g) ==
            IF g.raised THEN [s EXCEPT !.ev.raised = "TypeError"]
            ELSE IF g.settings = None THEN s
            ELSE apply(g, get_video_settings(s))
    IN  IF game = NoGame THEN s ELSE wanted(get_game_video_settings(s, game))

\* ============================================================ StateManager
\* StateManager.clear_context: a new StateContext and its patterns
clear_context(s) ==
    [s EXCEPT !.current_game = NoGame,
              !.current_state = None,
              !.previous_state = None,
              !.last_playing_timestamp = NoTs,
              !.max_history = StateMachineInit(coordinator_max_history),
              !.machine = add_patterns(EmptyMachine, setup_transition_patterns)]

\* (variant: the tape outlives the change of game)
update_game_keep_tape(s, game) ==
    IF game = s.current_game THEN s
    ELSE [s EXCEPT !.current_game = game,
                   !.current_state = None,
                   !.previous_state = None,
                   !.last_playing_timestamp = NoTs]

\* StateManager.update_game
update_game(s, game) ==
    IF game = s.current_game THEN s
    ELSE [s EXCEPT !.current_game = game,
                   !.current_state = None,
                   !.previous_state = None,
                   !.last_playing_timestamp = NoTs,
                   !.machine = clear(s.machine)]

\* (variant: a restart also when no timestamp is on record)
should_restart_without_record(s, ts) ==
    IF ~IsLogGame(s.current_game) THEN FALSE
    ELSE IF ts = NoTs THEN FALSE
    ELSE ts # s.last_playing_timestamp

\* StateManager._should_restart_for_timestamp_change; ts is the timestamp of
\* the latest Playing entry in the log as read now, NoTs when the read gave
\* no entries or no Playing entry
should_restart_for_timestamp_change(s, ts) ==
    IF ~IsLogGame(s.current_game) THEN FALSE
    ELSE IF ts = NoTs THEN FALSE
    ELSE IF s.last_playing_timestamp = NoTs THEN FALSE
    ELSE ts # s.last_playing_timestamp

\* StateManager._update_playing_timestamp
update_playing_timestamp(s, ts) ==
    IF ~IsLogGame(s.current_game) THEN s
    ELSE IF ts = NoTs THEN s
    ELSE [s EXCEPT !.last_playing_timestamp = ts]

\* (variant: the patterns of a restart are taken from the state machine)
restart_patterns_from_machine(m) == get_last_matches(m)

\* the triggered_patterns of the transition built in the restart branch
restart_patterns(m) == <<"restart">>

\* StateManager._create_transition; the push has already been made
create_transition(s, new_state, ts3) ==
    LET s1 == IF new_state = "Playing" /\ IsLogGame(s.current_game)
              THEN update_playing_timestamp(s, ts3) ELSE s
        transition == [is |-> TRUE, from_state |-> s1.current_state,
                       to_state |-> new_state,
                       triggered_patterns |-> get_last_matches(s1.machine)]
    IN  [s1 EXCEPT !.previous_state = s1.current_state,
                   !.current_state = new_state,
                   !.ev.transition = transition,
                   !.ev.branch = "normal"]

\* StateManager.update_state; ts2 and ts3 are what the log reads of
\* _should_restart_for_timestamp_change and _update_playing_timestamp give
update_state(s, new_state, ts2, ts3) ==
    IF s.current_game = NoGame THEN s
    ELSE IF /\ s.current_state = "Playing"
            /\ new_state = "Playing"
            /\ IsLogGame(s.current_game)
            /\ should_restart_for_timestamp_change(s, ts2)
    THEN LET m == push_state(s.machine, s.max_history, new_state)
             transition == [is |-> TRUE, from_state |-> s.current_state,
                            to_state |-> new_state,
                            triggered_patterns |-> restart_patterns(m)]
             s1 == [s EXCEPT !.machine = m,
                             !.ev.tape = s.machine.history,
                             !.previous_state = s.current_state,
                             !.current_state = new_state,
                             !.ev.transition = transition,
                             !.ev.branch = "restart"]
         IN  update_playing_timestamp(s1, ts3)
    ELSE IF new_state # None /\ new_state # s.current_state
    THEN create_transition(
             [s EXCEPT !.machine = push_state(s.machine, s.max_history, new_state)],
             new_state, ts3)
    ELSE s

\* ====================================================== RecordingProcessor
\* RecordingProcessor._start_recording_immediate
start_recording_immediate(s) == start_recording(s)

\* RecordingProcessor._start_recording: the start is handed to a timer thread
\* only when a settle delay remains, which needs the scene_change_delay field
start_recording_rp(s) ==
    IF get_recording_delay_remaining(s) > 0
    THEN [s EXCEPT !.delayed_starts = @ + 1, !.ev.deferred = TRUE]
    ELSE start_recording_immediate(s)

\* _delayed_start of _start_recording once its sleep is over
delayed_start(s) ==
    LET s1 == [s EXCEPT !.delayed_starts = @ - 1]
    IN  IF ~s1.recording_active THEN start_recording_immediate(s1) ELSE s1

\* (variant: the flag is left as it is)
mark_for_deletion_skipped(s) == s

\* RecordingProcessor.mark_for_deletion
mark_for_deletion(s) == [s EXCEPT !.delete_next_recording = TRUE]

\* RecordingProcessor.stop_recording_immediate
stop_recording_immediate(s) == stop_recording(s)

\* (variant: the discard branch forgets the deletion flag)
process_discard_no_flag(s) ==
    stop_recording([Acts(s, "discard_play") EXCEPT !.restart_after_stop = FALSE])

\* process_transition, branch discard_play
process_discard(s) ==
    stop_recording([Acts(s, "discard_play") EXCEPT
                        !.delete_next_recording = TRUE,
                        !.restart_after_stop = FALSE])

\* (variant: the restart branch forgets to ask for the new recording)
process_restart_no_flag(s) ==
    stop_recording([Acts(s, "restart") EXCEPT !.delete_next_recording = TRUE])

\* process_transition, branch restart
process_restart(s) ==
    stop_recording([Acts(s, "restart") EXCEPT
                        !.delete_next_recording = TRUE,
                        !.restart_after_stop = TRUE])

\* RecordingProcessor.process_transition.  The stop_play branch sleeps
\* result_wait inside _stop_recording before it calls stop_recording: the
\* tick thread is left at "result_wait" and StopAfterWait finishes the call.
process_transition(s, transition) ==
    LET patterns == ToSet(transition.triggered_patterns)
    IN  IF "restart" \in patterns /\ s.recording_active
        THEN process_restart(s)
        ELSE IF "start_play" \in patterns /\ ~s.recording_active
        THEN start_recording_rp(Acts(s, "start_play"))
        ELSE IF "discard_play" \in patterns /\ s.recording_active
        THEN process_discard(s)
        ELSE IF "stop_play" \in patterns /\ s.recording_active
        THEN [Acts(s, "stop_play") EXCEPT !.tickPc = "result_wait"]
        ELSE s

\* RecordingProcessor.handle_recording_completed followed by the rest of
\* (variant: the recording manager is handed every completed file)
on_recording_stopped_always_finalize(s) ==
    LET should_delete == s.delete_next_recording
        s1 == [s EXCEPT !.delete_next_recording = FALSE]
        s2 == IF s1.restart_after_stop
              THEN start_recording_rp([s1 EXCEPT !.restart_after_stop = FALSE])
              ELSE s1
        s3 == IF should_delete THEN [s2 EXCEPT !.ev.deleted = TRUE] ELSE s2
    IN  [s3 EXCEPT !.ev.finalized = TRUE]

\* DetectionCoordinator.on_recording_stopped
on_recording_stopped(s) ==
    LET should_delete == s.delete_next_recording
        s1 == [s EXCEPT !.delete_next_recording = FALSE]
        s2 == IF s1.restart_after_stop
              THEN start_recording_rp([s1 EXCEPT !.restart_after_stop = FALSE])
              ELSE s1
        s3 == IF should_delete THEN [s2 EXCEPT !.ev.deleted = TRUE] ELSE s2
        was_discarded == should_delete
    IN  IF ~was_discarded THEN [s3 EXCEPT !.ev.finalized = TRUE] ELSE s3

\* OBSController.on_record_state_changed
on_record_state_changed(s, data) ==
    IF data.output_state = "STARTED" THEN [s EXCEPT !.recording_active = TRUE]
    ELSE IF data.output_state = "STOPPED"
    THEN on_recording_stopped([s EXCEPT !.recording_active = FALSE,
                                        !.startOpen = FALSE,
                                        !.ev.take = data.take,
                                        !.ev.then = data.then])
    ELSE s

\* the handlers registered with the controller: any objects
Handlers == {"h1", "h2", "h3"}

NoFan == [calls |-> <<>>, logged |-> 0, escaped |-> FALSE]

\* OBSController.register_event_handler
register_event_handler(handlers, handler) ==
    IF \E i \in 1..Len(handlers) : handlers[i] = handler THEN handlers
    ELSE Append(handlers, handler)

\* (variant: the loop has no try around the call)
RECURSIVE notify_unguarded(_, _, _, _)
notify_unguarded(handlers, raising, i, f) ==
    IF i > Len(handlers) THEN f
    ELSE IF handlers[i] \in raising
    THEN [f EXCEPT !.calls = Append(@, handlers[i]), !.escaped = TRUE]
    ELSE notify_unguarded(handlers, raising, i + 1,
                          [f EXCEPT !.calls = Append(@, handlers[i])])

\* OBSController._notify_recording_started and _notify_recording_stopped:
\* the loop from handler i on; raising are the handlers whose method raises
RECURSIVE notify(_, _, _, _)
notify(handlers, raising, i, f) ==
    IF i > Len(handlers) THEN f
    ELSE IF handlers[i] \in raising
    THEN notify(handlers, raising, i + 1,
                [f EXCEPT !.calls = Append(@, handlers[i]), !.logged = @ + 1])
    ELSE notify(handlers, raising, i + 1,
                [f EXCEPT !.calls = Append(@, handlers[i])])

\* OBSController.register_events
register_events(s) ==
    IF is_connected(s) THEN [s EXCEPT !.ev.registered = @ + 1] ELSE s

\* (variant: a successful attempt leaves the subscription to the old client)
attempt_connection_no_register(s, reachable) ==
    IF reachable /\ s.backendUp
    THEN [s EXCEPT !.clients = TRUE, !.recording_active = s.obsRec,
                   !.connection_lost = FALSE, !.ev.ok = TRUE]
    ELSE [s EXCEPT !.connection_lost = TRUE]

\* OBSController._attempt_connection; reachable says whether the two clients
\* get through to the backend
attempt_connection(s, reachable) ==
    IF reachable /\ s.backendUp
    THEN register_events([s EXCEPT !.clients = TRUE,
                                   !.recording_active = s.obsRec,
                                   !.connection_lost = FALSE,
                                   !.ev.ok = TRUE])
    ELSE [s EXCEPT !.connection_lost = TRUE]

\* (variant: a failed heartbeat is only logged)
keep_alive_probe_logged(s) == [s EXCEPT !.ev.reqs = @ + 1]

\* the probe of _continuous_keep_alive while connected: get_version
keep_alive_probe(s) ==
    LET s1 == [s EXCEPT !.ev.reqs = @ + 1]
    IN  IF s1.backendUp THEN s1 ELSE [s1 EXCEPT !.connection_lost = TRUE]

\* ==================================================== DetectionCoordinator
\* (variant: the game-change block runs on every tick)
tick_game_change_every_tick(s, active_game) ==
    LET previous_game == s.current_game
        exited(s1) ==
            IF previous_game # NoGame /\ active_game = NoGame /\ s1.recording_active
            THEN stop_recording_immediate(mark_for_deletion(Acts(s1, "focus_lost")))
            ELSE s1
        scene(s3) ==
            IF s3.ev.raised # "none" THEN s3
            ELSE scene_process_game_change(s3, active_game)
        reset(s4) ==
            IF s4.ev.raised # "none" THEN s4
            ELSE [s4 EXCEPT !.pixel_detector = reset_detection_state,
                            !.log_detector = reset_detection_state]
    IN  IF TRUE
        THEN reset(scene(video_process_game_change(
                       exited(update_game(s, active_game)), active_game)))
        ELSE update_game(s, active_game)

\* the part of detect_and_control up to the early return for no active game
tick_game_change(s, active_game) ==
    LET previous_game == s.current_game
        exited(s1) ==
            IF previous_game # NoGame /\ active_game = NoGame /\ s1.recording_active
            THEN stop_recording_immediate(mark_for_deletion(Acts(s1, "focus_lost")))
            ELSE s1
        scene(s3) ==
            IF s3.ev.raised # "none" THEN s3
            ELSE scene_process_game_change(s3, active_game)
        reset(s4) ==
            IF s4.ev.raised # "none" THEN s4
            ELSE [s4 EXCEPT !.pixel_detector = reset_detection_state,
                            !.log_detector = reset_detection_state]
    IN  IF active_game # previous_game
        THEN reset(scene(video_process_game_change(
                       exited(update_game(s, active_game)), active_game)))
        ELSE update_game(s, active_game)

\* (variant: the confirmed state is not looked at)
can_save_lastplay_any_state(s, has_lastplay) ==
    IF s.recording_active THEN FALSE
    ELSE has_lastplay

\* DetectionCoordinator.can_save_lastplay; has_lastplay is what
\* RecordingManager.has_lastplay answers
can_save_lastplay(s, has_lastplay) ==
    IF s.recording_active THEN FALSE
    ELSE IF ~has_lastplay THEN FALSE
    ELSE s.current_state \in {None, "Select", "Result"}

\* detect_and_control; raw is what _detect_raw_state gives for the active
\* game.  An exception leaves the handler where it is raised.
detect_and_control(s, active_game, raw, ts2, ts3) ==
    LET record(s4, transition) ==
            IF s4.ev.raised # "none" THEN s4
            ELSE process_transition(s4, transition)
        process(s3) ==
            IF ~s3.ev.transition.is THEN s3
            ELSE record(scene_process_transition(s3, s3.ev.transition),
                        s3.ev.transition)
        update(s1, r) ==
            process(update_state(
                        IF IsPixelGame(active_game)
                        THEN [s1 EXCEPT !.pixel_detector = r.det]
                        ELSE [s1 EXCEPT !.log_detector = r.det],
                        r.out, ts2, ts3))
        detect(s1) ==
            IF s1.ev.raised # "none" \/ active_game = NoGame THEN s1
            ELSE update(s1,
                        IF IsPixelGame(active_game)
                        THEN detect_state(s1.pixel_detector, raw, s1.detection_threshold)
                        ELSE detect_state(s1.log_detector, raw, s1.detection_threshold))
    IN  detect(tick_game_change(s, active_game))

\* the body of the loop of Application.run: only ConnectionRefusedError is
\* caught inside the loop, any other exception of detect_and_control leaves
\* the loop and ends in shutdown()
run_tick(s, active_game, raw, ts2, ts3) ==
    LET leave(s1) ==
            IF s1.ev.raised # "none" THEN [s1 EXCEPT !.shutdown_requested = TRUE]
            ELSE s1
    IN  leave(detect_and_control(s, active_game, raw, ts2, ts3))


\* ================================== specification: the coordinator system
ScenOff == [n |-> -1, starts |-> 0, matched |-> FALSE]

\* progress of the scenario "a game gets the focus; raw Select, Select,
\* Playing, Playing, then Playing on every later tick", counted from the start
ScenStep(sc, before, after, active_game, raw) ==
    LET expected == IF sc.n \in {0, 1} THEN "Select" ELSE "Playing"
        follows == /\ sc.n >= 0
                   /\ active_game \in Games
                   /\ IF sc.n = 0 THEN before.current_game = NoGame
                      ELSE before.current_game = active_game
                   /\ raw = expected
        n2 == IF sc.n >= 4 THEN 5 ELSE sc.n + 1
        started == after.ev.startCalls
    IN  IF ~follows THEN ScenOff
        ELSE [n |-> n2,
              starts |-> IF sc.starts + started > 2 THEN 2 ELSE sc.starts + started,
              matched |-> IF n2 = 4
                          THEN "start_play" \in ToSet(after.ev.transition.triggered_patterns)
                          ELSE sc.matched]

\* the flags shared between the threads
\* ============================================================ GameDetector
\* Strings are sequences of tokens, so that endswith and `in` are computed:
\* <<"*", ".exe">> is "*.exe", <<>> is "" (or None for a process name).
EndsWith(str, suffix) ==
    /\ Len(suffix) <= Len(str)
    /\ SubSeq(str, Len(str) - Len(suffix) + 1, Len(str)) = suffix

Contains(str, part) ==
    \E i \in 0..(Len(str) - Len(part)) : SubSeq(str, i + 1, i + Len(part)) = part

\* ProcessInfo.matches_process
matches_process(pi, process_name, window_title) ==
    LET exe_match == IF pi.exe # <<>>
                     THEN IF pi.exe[1] = "*"
                          THEN EndsWith(process_name, Tail(pi.exe))
                          ELSE process_name = pi.exe
                     ELSE TRUE
        title_match == IF pi.title # <<>> THEN Contains(window_title, pi.title)
                       ELSE TRUE
    IN  exe_match /\ title_match

\* GameDetector._matches_focused; focus.process_name is what
\* _focused_process_name gives, <<>> when it gives None
matches_focused(game, focus) ==
    IF focus.process_name = <<>> THEN FALSE
    ELSE \E i \in 1..Len(game.processes) :
             matches_process(game.processes[i], focus.process_name,
                             focus.window_title)

\* the first game of the list from position k on that is of the kind and
\* matches the focus; 0 when there is none
RECURSIVE first_matching(_, _, _, _)
first_matching(games, kind, focus, k) ==
    IF k > Len(games) THEN 0
    ELSE IF games[k].kind = kind /\ matches_focused(games[k], focus) THEN k
    ELSE first_matching(games, kind, focus, k + 1)

\* (variant: the first game of the list that matches, of whatever kind)
get_active_game_any_kind(games, focus) ==
    IF focus.window_title = <<>> THEN 0
    ELSE IF first_matching(games, "log", focus, 1) = 0
    THEN first_matching(games, "pixel", focus, 1)
    ELSE IF first_matching(games, "pixel", focus, 1) = 0
    THEN first_matching(games, "log", focus, 1)
    ELSE IF first_matching(games, "log", focus, 1)
              < first_matching(games, "pixel", focus, 1)
    THEN first_matching(games, "log", focus, 1)
    ELSE first_matching(games, "pixel", focus, 1)

\* GameDetector.get_active_game: the position of the game in the list, 0 for
\* None
get_active_game(games, focus) ==
    IF focus.window_title = <<>> THEN 0
    ELSE IF focus.is_java /\ first_matching(games, "log", focus, 1) # 0
    THEN first_matching(games, "log", focus, 1)
    ELSE first_matching(games, "pixel", focus, 1)

\* the ProcessInfo objects, game descriptors and game lists tried
Exes == {<<>>, <<"game", ".exe">>, <<"java", ".exe">>, <<"*", ".exe">>}
TitleParts == {<<>>, <<"T">>}
ProcessInfos ==
    {[exe |-> e, title |-> ti] : e \in Exes, ti \in TitleParts}
        \ {[exe |-> <<>>, title |-> <<>>]}
Descriptors ==
    {[kind |-> k, processes |-> <<pi>>] : k \in {"log", "pixel"}, pi \in ProcessInfos}
GameLists == UNION {[1..n -> Descriptors] : n \in 0..MaxGames}

\* what the desktop can show: no window, or a window with a title and the
\* name of its process (<<>> when psutil refuses it); the process counts as
\* Java only if it is java.exe, and then only if its jar is found
NoFocus == [window_title |-> <<>>, process_name |-> <<>>, is_java |-> FALSE]
Focuses ==
    {f \in [window_title : {<<>>, <<"T">>, <<"x", "T", "y">>, <<"x">>},
            process_name : {<<>>, <<"game", ".exe">>, <<"java", ".exe">>},
            is_java : BOOLEAN] :
        f.is_java => f.process_name = <<"java", ".exe">>}

SharedFlags == {"recording_active", "connection_lost", "delete_next_recording",
                "restart_after_stop"}

InitCore ==
    /\ event_handlers = <<>>
    /\ fan = NoFan
    /\ settle_pending = FALSE
    /\ delayed_starts = 0
    /\ engine = EngineInit
    /\ log_latest = NoTs
    /\ restart_seen = FALSE
    /\ machine = add_patterns(EmptyMachine, setup_transition_patterns)
    /\ current_game = NoGame
    /\ current_state = None
    /\ previous_state = None
    /\ last_playing_timestamp = NoTs
    /\ pixel_detector = ResetDetector
    /\ log_detector = ResetDetector
    /\ delete_next_recording = FALSE
    /\ restart_after_stop = FALSE
    /\ recording_active = FALSE
    /\ connection_lost = FALSE
    /\ clients = FALSE
    /\ backendUp = TRUE
    /\ obsRec = FALSE
    /\ obsScene = "other"
    /\ obsVideo = "v_other"
    /\ events = <<>>
    /\ shutdown_requested = FALSE
    /\ tickPc = "idle"
    /\ kaPc = "initial"
    /\ keep_alive_stop_event = "None"
    /\ shutdown_called = FALSE
    /\ failed_probes = 0
    /\ pushed = <<>>
    /\ writers = [f \in SharedFlags |-> {}]
    /\ ev = EvOf("init")
    /\ startOpen = FALSE
    /\ scen = [n |-> 0, starts |-> 0, matched |-> FALSE]
    /\ rawSeq = <<>>
    /\ emitted = None
    /\ entries = <<>>
    /\ classified = None

InitBase ==
    /\ InitCore
    /\ has_scene_change_delay = settings_has_scene_change_delay
    /\ gd = [games |-> <<>>, focus |-> NoFocus, active |-> 0]

\* the coordinator with the scenes table [scenes] Default = "menu" and no
\* video table
Init ==
    /\ InitBase
    /\ max_history = StateMachineInit(coordinator_max_history)
    /\ detection_threshold = detections_required
    /\ scenes = "default"
    /\ video = "none"

\* the run counter is unbounded; detect_state only compares it with the
\* threshold, so a run longer than the threshold is counted as the threshold
CapRun(d, threshold) == IF d.n > threshold THEN [d EXCEPT !.n = threshold] ELSE d

\* the step record keeps the transition only of a step that acted on it or
\* took the restart path
Noted(e) ==
    IF e.act = "none" /\ e.branch # "restart" /\ e.raised = "none"
    THEN EvOf(e.kind) ELSE e

Bounded(s) == Len(s.events) <= MaxEvents /\ s.delayed_starts <= MaxTimers

\* one tick of Application.run: detect_and_control with the focus and the
\* sample the collaborators give
Tick(active_game, raw, ts2, ts3) ==
    /\ tickPc = "idle"
    /\ ~shutdown_requested
    /\ \E before \in {[Cur EXCEPT !.ev = EvOf("tick")]} :
       \E after \in {run_tick(before, active_game, raw, ts2, ts3)} :
           /\ Bounded(after)
           /\ Becomes([after EXCEPT
                          !.ev = Noted(@),
                          !.pixel_detector = CapRun(@, after.detection_threshold),
                          !.log_detector = CapRun(@, after.detection_threshold)])
           /\ scen' = ScenStep(scen, before, after, active_game, raw)
    /\ UNCHANGED <<kaVars, failed_probes, pushed, gd, debounceVars, logVars, extVars>>

TickNoGame == Tick(NoGame, None, NoTs, NoTs)

TickPixel == \E raw \in PixelRaw : Tick("pix", raw, NoTs, NoTs)

\* the log is read again by _should_restart_for_timestamp_change (ts2, read
\* only when Playing is the current state) and by _update_playing_timestamp
\* (ts3) only for a detection of Playing; either read may come back empty
TickLog ==
    \/ \E raw \in LogRaw \ {"Playing"} : Tick("log", raw, NoTs, NoTs)
    \/ \E ts2 \in IF current_state = "Playing" THEN Timestamps \cup {NoTs} ELSE {NoTs},
          ts3 \in Timestamps \cup {NoTs} :
           /\ ts3 \in {NoTs, ts2} \/ ts2 = NoTs
           /\ Tick("log", "Playing", ts2, ts3)

\* the end of the result_wait sleep in _stop_recording(immediate=False)
StopAfterWait ==
    /\ tickPc = "result_wait"
    /\ LET before == [Cur EXCEPT !.ev = [EvOf("wait_stop") EXCEPT !.act = "stop_play"],
                                 !.tickPc = "idle"]
           after == stop_recording(before)
       IN  /\ Bounded(after)
           /\ Becomes(after)
    /\ UNCHANGED <<scen, kaVars, failed_probes, pushed, gd, debounceVars, logVars, extVars>>

\* the event thread delivers the next backend event
DeliverEvent ==
    /\ events # <<>>
    /\ LET before == [Cur EXCEPT !.ev = EvOf(Head(events).output_state),
                                 !.events = Tail(events)]
           after == on_record_state_changed(before, Head(events))
       IN  /\ Bounded(after)
           /\ Becomes(after)
    /\ UNCHANGED <<scen, kaVars, failed_probes, pushed, gd, debounceVars, logVars, extVars>>

\* the initial connection thread or _reconnect of the keep-alive thread
AttemptConnection ==
    /\ ~is_connected(Cur)
    /\ \E reachable \in BOOLEAN :
          Becomes(attempt_connection([Cur EXCEPT !.ev = EvOf("connect")], reachable))
    /\ UNCHANGED <<scen, kaVars, failed_probes, pushed, gd, debounceVars, logVars, extVars>>

\* the backend goes away and comes back: its recording ends, its undelivered
\* events are lost, and the next request of the controller (the heartbeat
\* get_version of _continuous_keep_alive at the latest) raises
BackendRestart ==
    /\ Becomes([Cur EXCEPT !.ev = EvOf("backend"), !.obsRec = FALSE,
                           !.events = <<>>, !.startOpen = FALSE,
                           !.connection_lost = IF is_connected(Cur) THEN TRUE ELSE @])
    /\ UNCHANGED <<scen, kaVars, failed_probes, pushed, gd, debounceVars, logVars, extVars>>

Next ==
    \/ TickNoGame /\ UNCHANGED writers
    \/ TickPixel /\ UNCHANGED writers
    \/ TickLog /\ UNCHANGED writers
    \/ StopAfterWait /\ UNCHANGED writers
    \/ DeliverEvent /\ UNCHANGED writers
    \/ AttemptConnection /\ UNCHANGED writers
    \/ BackendRestart /\ UNCHANGED writers

Spec == Init /\ [][Next]_vars

\* the coordinator with the log game alone in the games list and a backend
\* that stays up
NextLogGame ==
    \/ TickNoGame /\ UNCHANGED writers
    \/ TickLog /\ UNCHANGED writers
    \/ StopAfterWait /\ UNCHANGED writers
    \/ DeliverEvent /\ UNCHANGED writers
    \/ AttemptConnection /\ UNCHANGED writers

SpecLogGame == Init /\ [][NextLogGame]_vars

\* ======================= specification: the application and its settings
\* Application.run over the coordinator with any of the scenes and video
\* tables, a pixel game, the event thread and the connection thread
InitApp ==
    /\ InitBase
    /\ max_history = StateMachineInit(coordinator_max_history)
    /\ detection_threshold = detections_required
    /\ scenes \in SceneTables
    /\ video \in VideoTables

NextApp ==
    \/ TickNoGame /\ UNCHANGED writers
    \/ TickPixel /\ UNCHANGED writers
    \/ StopAfterWait /\ UNCHANGED writers
    \/ DeliverEvent /\ UNCHANGED writers
    \/ AttemptConnection /\ UNCHANGED writers

SpecApp == InitApp /\ [][NextApp]_vars

\* ============================ specification: the controller and its backend
\* OBSController alone: its connection thread (the initial attempt, then the
\* keep-alive loop), the backend going away and coming back, the event
\* thread, and the public calls made by the other threads; each step notes
\* which thread changed which shared flag
Changed(flag) ==
    IF flag = "recording_active" THEN recording_active' # recording_active
    ELSE IF flag = "connection_lost" THEN connection_lost' # connection_lost
    ELSE IF flag = "delete_next_recording"
    THEN delete_next_recording' # delete_next_recording
    ELSE restart_after_stop' # restart_after_stop

Audit(thread) ==
    writers' = [f \in SharedFlags |->
                   IF Changed(f) THEN writers[f] \cup {thread} ELSE writers[f]]

InitLink ==
    /\ InitBase
    /\ max_history = StateMachineInit(coordinator_max_history)
    /\ detection_threshold = detections_required
    /\ scenes = "default"
    /\ video = "none"

LinkFrame == UNCHANGED <<scen, pushed, gd, debounceVars, logVars, extVars>>

Probes(after) ==
    IF is_connected(after) THEN 0
    ELSE IF failed_probes < MaxProbes THEN failed_probes + 1 ELSE MaxProbes

\* _attempt_initial_connection: one attempt, then the keep-alive thread starts
InitialConnection ==
    /\ kaPc = "initial"
    /\ \E after \in {attempt_connection([Cur EXCEPT !.ev = EvOf("connect")], TRUE)} :
          /\ Becomes(after)
          /\ failed_probes' = Probes(after)
    /\ kaPc' = "keep_alive"
    /\ keep_alive_stop_event' = "clear"
    /\ UNCHANGED shutdown_called
    /\ Audit("connection")
    /\ LinkFrame

\* one round of _continuous_keep_alive: the get_version probe while
\* connected, an attempt of _reconnect otherwise
KeepAlive ==
    /\ kaPc = "keep_alive"
    /\ keep_alive_stop_event # "set"
    /\ \E before \in {[Cur EXCEPT !.ev = [EvOf(IF is_connected(Cur) THEN "probe"
                                                ELSE "reconnect")
                                           EXCEPT !.probesBefore = failed_probes]]} :
       \E after \in {IF is_connected(Cur) THEN keep_alive_probe(before)
                      ELSE attempt_connection(before, TRUE)} :
          /\ Becomes(after)
          /\ failed_probes' = Probes(after)
    /\ UNCHANGED kaVars
    /\ Audit("connection")
    /\ LinkFrame

\* _continuous_keep_alive and _reconnect find the stop event set and return
KeepAliveExit ==
    /\ kaPc = "keep_alive"
    /\ keep_alive_stop_event = "set"
    /\ kaPc' = "done"
    /\ Becomes([Cur EXCEPT !.ev = EvOf("exit")])
    /\ UNCHANGED <<keep_alive_stop_event, shutdown_called, failed_probes, writers>>
    /\ LinkFrame

\* OBSController.shutdown: the stop event is set if there is one; the joins
\* wait two seconds at most and change nothing
Shutdown ==
    /\ ~shutdown_called
    /\ shutdown_called' = TRUE
    /\ keep_alive_stop_event' =
           IF keep_alive_stop_event # "None" THEN "set" ELSE keep_alive_stop_event
    /\ Becomes([Cur EXCEPT !.ev = EvOf("shutdown")])
    /\ UNCHANGED <<kaPc, failed_probes, writers>>
    /\ LinkFrame

BackendDown ==
    /\ backendUp
    /\ Becomes([Cur EXCEPT !.ev = EvOf("backend"), !.backendUp = FALSE,
                           !.obsRec = FALSE, !.events = <<>>, !.startOpen = FALSE])
    /\ UNCHANGED <<kaVars, failed_probes, writers>>
    /\ LinkFrame

BackendUp ==
    /\ ~backendUp
    /\ Becomes([Cur EXCEPT !.ev = EvOf("backend"), !.backendUp = TRUE])
    /\ UNCHANGED <<kaVars, failed_probes, writers>>
    /\ LinkFrame

PublicCalls == {"start_recording", "stop_recording", "set_current_scene",
                "get_current_scene", "get_scene_list", "get_video_settings",
                "set_video_settings"}

\* a public call of the controller as the tick thread makes it, with what it
\* returns
PublicCall(s, name, arg) ==
    IF name = "start_recording" THEN start_recording(s)
    ELSE IF name = "stop_recording" THEN stop_recording(s)
    ELSE IF name = "set_current_scene" THEN set_current_scene(s, arg)
    ELSE IF name = "get_current_scene"
    THEN LET r == get_current_scene(s) IN [r.s EXCEPT !.ev.result = r.scene]
    ELSE IF name = "get_scene_list"
    THEN LET r == get_scene_list(s) IN [r.s EXCEPT !.ev.result = r.scenes]
    ELSE IF name = "get_video_settings"
    THEN LET r == get_video_settings(s) IN [r.s EXCEPT !.ev.result = r.settings]
    ELSE set_video_settings(s, arg)

CallArgs(name) ==
    IF name = "set_current_scene" THEN {"menu", "game"}
    ELSE IF name = "set_video_settings" THEN {"v_game", "v_other"}
    ELSE {None}

Call ==
    /\ \E name \in PublicCalls : \E arg \in CallArgs(name) :
       \E after \in {PublicCall([Cur EXCEPT !.ev = EvOf(name)], name, arg)} :
          /\ Bounded(after)
          /\ Becomes(after)
    /\ UNCHANGED <<kaVars, failed_probes>>
    /\ Audit("tick")
    /\ LinkFrame

NextLink ==
    \/ InitialConnection
    \/ KeepAlive
    \/ KeepAliveExit
    \/ Shutdown
    \/ BackendDown
    \/ BackendUp
    \/ Call
    \/ DeliverEvent /\ Audit("event")

SpecLink == InitLink /\ [][NextLink]_vars

\* the connection thread is a thread of its own that sleeps at most
\* obs_timeout seconds between two rounds: it always gets its next round
SpecLinkFair ==
    /\ InitLink
    /\ [][NextLink]_vars
    /\ WF_vars(InitialConnection)
    /\ WF_vars(KeepAlive)

\* ============================================ specification: StateMachine
\* a StateMachine of any capacity under arbitrary push_state and clear calls
InitSM ==
    /\ InitBase
    /\ scenes = "default"
    /\ video = "none"
    /\ max_history \in {StateMachineInit(a) : a \in 0..MaxHistoryArg}
    /\ detection_threshold = detections_required

SMPush(s) ==
    /\ Len(pushed) < MaxPushes
    /\ machine' = push_state(machine, max_history, s)
    /\ pushed' = IF pushed # <<>> /\ pushed[Len(pushed)] = s THEN pushed
                 ELSE Append(pushed, s)
    /\ UNCHANGED <<max_history, ctxVars, detVars, recVars, obsVars, backendVars,
                   cfgVars, shutdown_requested, tickPc, kaVars, ghostVars,
                   failed_probes, writers, gd, debounceVars, logVars, extVars, timerVars>>

SMClear ==
    /\ machine' = clear(machine)
    /\ pushed' = <<>>
    /\ UNCHANGED <<max_history, ctxVars, detVars, recVars, obsVars, backendVars,
                   cfgVars, shutdown_requested, tickPc, kaVars, ghostVars,
                   failed_probes, writers, gd, debounceVars, logVars, extVars, timerVars>>

NextSM == (\E s \in StateNames : SMPush(s)) \/ SMClear

SpecSM == InitSM /\ [][NextSM]_vars

\* =============================================== specification: debouncer
\* one BaseStateDetector fed raw detections tick by tick
InitDebounce ==
    /\ InitBase
    /\ scenes = "default"
    /\ video = "none"
    /\ max_history = StateMachineInit(coordinator_max_history)
    /\ detection_threshold \in 1..MaxThreshold

DbObserve(raw) ==
    /\ Len(rawSeq) < MaxRaw
    /\ LET r == detect_state(pixel_detector, raw, detection_threshold)
       IN  /\ pixel_detector' = r.det
           /\ emitted' = r.out
    /\ rawSeq' = Append(rawSeq, raw)
    /\ UNCHANGED <<tapeVars, ctxVars, detection_threshold, log_detector, recVars,
                   obsVars, backendVars, cfgVars, shutdown_requested, tickPc,
                   kaVars, ghostVars, failed_probes, writers, pushed, gd, logVars, extVars, timerVars>>

DbReset ==
    /\ rawSeq # <<>>
    /\ pixel_detector' = reset_detection_state
    /\ rawSeq' = <<>>
    /\ emitted' = None
    /\ UNCHANGED <<tapeVars, ctxVars, detection_threshold, log_detector, recVars,
                   obsVars, backendVars, cfgVars, shutdown_requested, tickPc,
                   kaVars, ghostVars, failed_probes, writers, pushed, gd, logVars, extVars, timerVars>>

NextDebounce == (\E raw \in {"Select", "Playing", None} : DbObserve(raw)) \/ DbReset

SpecDebounce == InitDebounce /\ [][NextDebounce]_vars

\* ======================================== specification: log classification
\* LogGame.get_current_state applied to the log window as it grows entry by
\* entry, up to MaxWindow entries

Classify(window) ==
    /\ entries' = window
    /\ classified' = get_current_state(LogGameStates, window)
    /\ UNCHANGED <<tapeVars, ctxVars, detVars, recVars, obsVars, backendVars,
                   cfgVars, shutdown_requested, tickPc, kaVars, ghostVars,
                   failed_probes, writers, pushed, gd, debounceVars, extVars,
                   timerVars>>

NextLog == \E e \in LogEntries : Len(entries) < MaxWindow /\ Classify(Append(entries, e))

\* ------------------------------- the monolithic DetectionEngine on its own
LegacyFrame ==
    UNCHANGED <<tapeVars, ctxVars, detVars, recVars, obsVars, backendVars,
                cfgVars, shutdown_requested, tickPc, kaVars, ghostVars,
                failed_probes, writers, pushed, gd, debounceVars, logVars,
                restartVars, timerVars, fanVars>>

InitLegacy ==
    /\ InitBase
    /\ scenes = "default"
    /\ video = "none"
    /\ max_history = StateMachineInit(coordinator_max_history)
    /\ detection_threshold = detections_required

\* _on_state_committed, "start_play"
LegacyStartPlay ==
    /\ ~engine.recording_active
    /\ engine' = engine_start_recording(engine)
    /\ LegacyFrame

\* _on_state_committed, "restart", and the quick restart of detect_and_control
LegacyRestart ==
    /\ engine.recording_active
    /\ engine.stops < MaxStops
    /\ engine' = engine_stop_recording([engine EXCEPT !.delete_next_recording = TRUE,
                                                      !.restart_after_stop = TRUE])
    /\ LegacyFrame

\* _on_state_committed, "discard_play"
LegacyDiscardPlay ==
    /\ engine.recording_active
    /\ engine.stops < MaxStops
    /\ engine' = engine_stop_recording([engine EXCEPT !.delete_next_recording = TRUE,
                                                      !.restart_after_stop = FALSE])
    /\ LegacyFrame

\* _on_state_committed, "stop_play"
LegacyStopPlay ==
    /\ engine.recording_active
    /\ engine.stops < MaxStops
    /\ engine' = engine_stop_recording(engine)
    /\ LegacyFrame

\* _on_no_active_game with a game in focus before
LegacyNoActiveGame ==
    /\ engine.recording_active => engine.stops < MaxStops
    /\ engine' = engine_on_no_active_game(engine)
    /\ LegacyFrame

\* the event thread enters handle_recording_completed and starts the worker
LegacyCompleted ==
    /\ engine.pc = "idle"
    /\ engine.stops > 0
    /\ Len(engine.workers) < MaxWorkers
    /\ engine' = engine_spawn_worker(engine)
    /\ LegacyFrame

\* the event thread runs the rest of handle_recording_completed
LegacyCompletedRest ==
    /\ engine.pc = "spawned"
    /\ engine' = engine_after_spawn(engine)
    /\ LegacyFrame

\* a worker thread runs _handle_recording_in_thread
LegacyWorker ==
    /\ \E i \in 1..Len(engine.workers) : engine' = engine_worker(engine, i)
    /\ LegacyFrame

NextLegacy ==
    \/ LegacyStartPlay
    \/ LegacyRestart
    \/ LegacyDiscardPlay
    \/ LegacyStopPlay
    \/ LegacyNoActiveGame
    \/ LegacyCompleted
    \/ LegacyCompletedRest
    \/ LegacyWorker

SpecLegacy == InitLegacy /\ [][NextLegacy]_vars

\* --------------------------------------- the controller and its handlers
\* OBSController with any handlers registered; recording_completed_callback
\* is None, as the container leaves it
FanFrame ==
    UNCHANGED <<tapeVars, ctxVars, detVars, recVars, backendVars, cfgVars,
                shutdown_requested, tickPc, kaVars, startOpen, scen,
                failed_probes, writers, pushed, gd, debounceVars, logVars,
                engine, restartVars, timerVars>>

RegisterEventHandler(handler) ==
    /\ event_handlers' = register_event_handler(event_handlers, handler)
    /\ fan' = NoFan
    /\ ev' = [EvOf("register_event_handler") EXCEPT !.result = handler]
    /\ UNCHANGED obsVars
    /\ FanFrame

\* on_record_state_changed for one event of the backend
FanRecordStateChanged(output_state, raising) ==
    /\ recording_active' = (output_state = "STARTED")
    /\ fan' = notify(event_handlers, raising, 1, NoFan)
    /\ ev' = EvOf(output_state)
    /\ UNCHANGED <<connection_lost, clients, event_handlers>>
    /\ FanFrame

NextFan ==
    \/ \E handler \in Handlers : RegisterEventHandler(handler)
    \/ \E output_state \in {"STARTED", "STOPPED"} :
       \E raising \in SUBSET Handlers :
           FanRecordStateChanged(output_state, raising)
    \/ AttemptConnection /\ UNCHANGED writers
    \/ BackendRestart /\ UNCHANGED writers

SpecFan == Init /\ [][NextFan]_vars

\* ------------------------------- the coordinator and the save-lastplay key
\* the hotkey thread asks can_save_lastplay
CanSaveLastplay(has_lastplay) ==
    /\ Becomes([Cur EXCEPT !.ev = [EvOf("can_save") EXCEPT
                    !.has_lastplay = has_lastplay,
                    !.can_save = can_save_lastplay(Cur, has_lastplay)]])
    /\ UNCHANGED <<scen, kaVars, failed_probes, pushed, gd, debounceVars, logVars,
                   extVars>>

NextSave ==
    \/ TickNoGame /\ UNCHANGED writers
    \/ TickPixel /\ UNCHANGED writers
    \/ StopAfterWait /\ UNCHANGED writers
    \/ DeliverEvent /\ UNCHANGED writers
    \/ AttemptConnection /\ UNCHANGED writers
    \/ (\E has_lastplay \in BOOLEAN : CanSaveLastplay(has_lastplay))
          /\ UNCHANGED writers

SpecSave == Init /\ [][NextSave]_vars

\* ------------------------- the coordinator with a settle delay in the settings
\* The settings object handed to SceneProcessor has the attribute
\* scene_change_delay; the controller is connected and the scenes table is
\* the one with Default and Playing.
InitTimer ==
    /\ InitCore
    /\ gd = [games |-> <<>>, focus |-> NoFocus, active |-> 0]
    /\ has_scene_change_delay = TRUE
    /\ max_history = StateMachineInit(coordinator_max_history)
    /\ detection_threshold = detections_required
    /\ scenes = "full"
    /\ video = "none"

\* a _delayed_start thread wakes up
TimerFires ==
    /\ delayed_starts > 0
    /\ LET before == [Cur EXCEPT !.ev = EvOf("timer")]
           after == delayed_start(before)
       IN  /\ Bounded(after)
           /\ Becomes(after)
    /\ UNCHANGED <<scen, kaVars, failed_probes, pushed, gd, debounceVars, logVars,
                   extVars>>

\* scene_change_delay seconds have passed since the last scene switch
SettleElapses ==
    /\ settle_pending
    /\ Becomes([Cur EXCEPT !.ev = EvOf("settled"), !.settle_pending = FALSE])
    /\ UNCHANGED <<scen, kaVars, failed_probes, pushed, gd, debounceVars, logVars,
                   extVars>>

NextTimer ==
    \/ TickNoGame /\ UNCHANGED writers
    \/ TickPixel /\ UNCHANGED writers
    \/ StopAfterWait /\ UNCHANGED writers
    \/ DeliverEvent /\ UNCHANGED writers
    \/ AttemptConnection /\ UNCHANGED writers
    \/ TimerFires /\ UNCHANGED writers
    \/ SettleElapses /\ UNCHANGED writers

SpecTimer == InitTimer /\ [][NextTimer]_vars

\* --------------------------------------- StateManager against a growing log
RestartFrame ==
    UNCHANGED <<writers, kaVars, failed_probes, pushed, gd, debounceVars,
                logVars, engine, fanVars>>

InitRestart ==
    /\ InitBase
    /\ scenes = "default"
    /\ video = "none"
    /\ max_history = StateMachineInit(coordinator_max_history)
    /\ detection_threshold = detections_required

\* what LogService.get_log_entries_for_game followed by
\* Game.get_playing_state_timestamp gives: the latest Playing entry, or
\* nothing when the read returns no entries
ReadPlayingTimestamp(got_entries) == IF got_entries THEN log_latest ELSE NoTs

\* the game writes a Playing entry with a new timestamp
LogPlayingEntry(ts) ==
    /\ ts # log_latest
    /\ log_latest' = ts
    /\ restart_seen' = FALSE
    /\ ev' = EvOf("log_entry")
    /\ UNCHANGED <<tapeVars, ctxVars, detVars, recVars, obsVars, backendVars,
                   cfgVars, shutdown_requested, tickPc, startOpen, scen, timerVars>>
    /\ RestartFrame

RestartUpdateGame(game) ==
    /\ Becomes(update_game([Cur EXCEPT !.ev = EvOf("update_game")], game))
    /\ UNCHANGED <<scen, restartVars>>
    /\ RestartFrame

\* one update_state of the coordinator's tick with its two log reads
RestartUpdateState(new_state, got2, got3) ==
    /\ Becomes(update_state([Cur EXCEPT !.ev = EvOf("update_state")], new_state,
                            ReadPlayingTimestamp(got2), ReadPlayingTimestamp(got3)))
    /\ restart_seen' = (restart_seen \/ ev'.branch = "restart")
    /\ UNCHANGED <<scen, log_latest>>
    /\ RestartFrame

NextRestart ==
    \/ \E ts \in Timestamps : LogPlayingEntry(ts)
    \/ \E game \in Games \cup {NoGame} : RestartUpdateGame(game)
    \/ \E new_state \in StateNames \cup {None} :
       \E got2 \in BOOLEAN, got3 \in BOOLEAN :
           RestartUpdateState(new_state, got2, got3)

SpecRestart == InitRestart /\ [][NextRestart]_vars

\* ------------------------------------------------ StateManager on its own
InitMgr ==
    /\ InitBase
    /\ scenes = "default"
    /\ video = "none"
    /\ max_history = StateMachineInit(coordinator_max_history)
    /\ detection_threshold = detections_required

MgrFrame ==
    UNCHANGED <<scen, writers, kaVars, failed_probes, pushed, gd, debounceVars,
                logVars, extVars>>

MgrUpdateGame(game) ==
    /\ Becomes(update_game([Cur EXCEPT !.ev = EvOf("update_game")], game))
    /\ MgrFrame

MgrUpdateState(new_state, ts2, ts3) ==
    /\ Becomes(update_state([Cur EXCEPT !.ev = EvOf("update_state")],
                            new_state, ts2, ts3))
    /\ MgrFrame

MgrClearContext ==
    /\ Becomes(clear_context([Cur EXCEPT !.ev = EvOf("clear_context")]))
    /\ MgrFrame

NextMgr ==
    \/ \E game \in Games \cup {NoGame} : MgrUpdateGame(game)
    \/ \E new_state \in StateNames \cup {None} :
       \E ts2 \in Timestamps \cup {NoTs}, ts3 \in Timestamps \cup {NoTs} :
           MgrUpdateState(new_state, ts2, ts3)
    \/ MgrClearContext

SpecMgr == InitMgr /\ [][NextMgr]_vars

InitGames ==
    /\ InitCore
    /\ has_scene_change_delay = settings_has_scene_change_delay
    /\ scenes = "default"
    /\ video = "none"
    /\ max_history = StateMachineInit(coordinator_max_history)
    /\ detection_threshold = detections_required
    /\ \E games \in GameLists : gd = [games |-> games, focus |-> NoFocus, active |-> 0]

\* one call of get_active_game for what the desktop shows
GetActiveGame(focus) ==
    /\ gd' = [gd EXCEPT !.focus = focus,
                        !.active = get_active_game(gd.games, focus)]
    /\ UNCHANGED <<tapeVars, ctxVars, detVars, recVars, obsVars, backendVars,
                   cfgVars, shutdown_requested, tickPc, kaVars, ghostVars,
                   failed_probes, writers, pushed, debounceVars, logVars, extVars, timerVars>>

NextGames == \E focus \in Focuses : GetActiveGame(focus)

SpecGames == InitGames /\ [][NextGames]_vars

InitLog ==
    /\ InitBase
    /\ scenes = "default"
    /\ video = "none"
    /\ max_history = StateMachineInit(coordinator_max_history)
    /\ detection_threshold = detections_required

SpecLog == InitLog /\ [][NextLog]_vars

\* ================================================================== claims
Last(seq) == seq[Len(seq)]

\* length of the run of equal values at the end of seq
RunLen(seq) ==
    IF seq = <<>> THEN 0
    ELSE LET breaks == {i \in 1..Len(seq) : seq[i] # Last(seq)}
         IN  IF breaks = {} THEN Len(seq)
             ELSE Len(seq) - (CHOOSE i \in breaks : \A j \in breaks : j <= i)

\* C1 as stated: a confirmed detection comes out of the debouncer exactly on
\* the tick on which the run of one raw value first reaches the threshold, and
\* on no later tick of that run; the counter is the length of the run.
C1_OncePerRun ==
    /\ pixel_detector.n = RunLen(rawSeq)
    /\ emitted # None <=>
          (rawSeq # <<>> /\ Last(rawSeq) # None /\ RunLen(rawSeq) = detection_threshold)

\* C1 as the code has it: the counter is the length of the current run (1
\* after a change of the raw value), and the raw value comes out on every tick
\* on which the run is at least threshold long, the later ticks of the run
\* included; a shorter run gives nothing.
C1_EveryTickOfRun ==
    /\ pixel_detector.n = RunLen(rawSeq)
    /\ emitted = IF rawSeq # <<>> /\ RunLen(rawSeq) >= detection_threshold
                 THEN Last(rawSeq) ELSE None

C1_Witness ==
    /\ RunLen(rawSeq) > detection_threshold
    /\ Len(rawSeq) > RunLen(rawSeq)
    /\ emitted = "Playing"

\* a pattern sequence equals the trailing slice of the tape of its length,
\* token by token, a token being equal or the wildcard
TailMatches(h, sequence) ==
    /\ Len(sequence) <= Len(h)
    /\ \A i \in 1..Len(sequence) :
          \/ sequence[i] = WILDCARD
          \/ sequence[i] = h[Len(h) - Len(sequence) + i]

MatchSet(h) ==
    {setup_transition_patterns[k].name :
        k \in {j \in 1..Len(setup_transition_patterns) :
                  TailMatches(h, setup_transition_patterns[j].sequence)}}

\* C2: a push_state of a state that differs from the top of the tape leaves
\* as match set exactly the names of the registered patterns that equal the
\* trailing slice of the new tape (wildcard or equal tokens, never a pattern
\* longer than the tape); on a tape that holds three states or more, as the
\* coordinator's does, pushing Playing onto [Select, Unknown] gives start_play
\* and neither stop_play nor discard_play.
C2_MatchSetIsTailMatches ==
    [][ (machine'.history # machine.history /\ machine'.history # <<>>) =>
          /\ ToSet(get_last_matches(machine')) = MatchSet(machine'.history)
          /\ (/\ max_history >= 3
              /\ machine.history = <<"Select", "Unknown">>
              /\ Last(machine'.history) = "Playing")
                => /\ "start_play" \in ToSet(get_last_matches(machine'))
                   /\ "stop_play" \notin ToSet(get_last_matches(machine'))
                   /\ "discard_play" \notin ToSet(get_last_matches(machine')) ]_vars

C2_Witness ==
    /\ max_history >= 3
    /\ machine.history = <<"Select", "Unknown", "Playing">>
    /\ get_last_matches(machine) = <<"start_play">>

\* the greatest index of an entry of the window that a pattern of the state
\* matches, -1 when there is none (0-based, as in the code)
LastMatchIndex(state, window) ==
    LET hits == {i \in 1..Len(window) : EntryMatchesState(state, window[i])}
    IN  IF hits = {} THEN -1 ELSE (CHOOSE i \in hits : \A j \in hits : j <= i) - 1

StateNamed(name) ==
    CHOOSE k \in 1..Len(LogGameStates) : LogGameStates[k].name = name

\* C5: get_current_state gives none iff no state matches any entry of the
\* window, and otherwise a state whose last matching entry has the greatest
\* index among the last matches of all states; a window with a Playing entry
\* and a later Result entry after which nothing else matches is Result.
C5_LatestMatchWins ==
    LET idx(k) == LastMatchIndex(LogGameStates[k], entries)
        all == 1..Len(LogGameStates)
    IN  /\ classified = None <=> \A k \in all : idx(k) = -1
        /\ classified # None =>
              /\ classified \in {LogGameStates[k].name : k \in all}
              /\ \A k \in all : idx(StateNamed(classified)) >= idx(k)
        /\ (/\ idx(StateNamed("Playing")) >= 0
            /\ idx(StateNamed("Result")) > idx(StateNamed("Playing"))
            /\ \A k \in all : idx(k) <= idx(StateNamed("Result")))
              => classified = "Result"

C5_Witness ==
    /\ Len(entries) >= 2
    /\ EntryMatchesState(LogGameStates[StateNamed("Playing")], entries[1])
    /\ EntryMatchesState(LogGameStates[StateNamed("Result")], entries[Len(entries)])
    /\ classified = "Result"

C4_RestartDelivered ==
    ev.branch = "restart" =>
        /\ ev.transition.is
        /\ ev.transition.from_state = "Playing"
        /\ ev.transition.to_state = "Playing"
        /\ "restart" \in ToSet(ev.transition.triggered_patterns)

C4_Witness ==
    /\ ev.branch = "restart"
    /\ ev.tape = <<"Playing">>
    /\ "restart" \in ToSet(ev.transition.triggered_patterns)
    /\ ev.act = "restart"

\* C6: from the start, with threshold 2, a game in focus and the raw samples
\* Select, Select, Playing, Playing, then Playing on every later tick: after
\* the second tick Select is confirmed and the tape is [Select]; after the
\* fourth Playing is confirmed, the tape is [Select, Playing], the transition
\* carried start_play and the ticks have made one start call on the
\* controller; the later ticks make no further start call.
C6_StartOnce ==
    /\ scen.n = 2 =>
          /\ current_state = "Select"
          /\ machine.history = <<"Select">>
          /\ scen.starts = 0
    /\ scen.n >= 4 =>
          /\ current_state = "Playing"
          /\ machine.history = <<"Select", "Playing">>
          /\ scen.matched
          /\ scen.starts = 1

C6_Witness ==
    /\ scen.n = 5
    /\ scen.starts = 1
    /\ recording_active
    /\ obsRec

\* C7: a tick that acts on discard_play (it does so only while
\* recording_active) leaves delete_next set and has called stop at once, the
\* request going out if the controller is connected; and when the completion
\* event of the take that this stop ended is delivered, the file is deleted
\* and not handed to RecordingManager.handle_recording_completed.  The take is
\* an established recording: no backend event was still undelivered when the
\* stop request was accepted.
C7_DiscardDeletes ==
    /\ (ev.kind = "tick" /\ ev.act = "discard_play") =>
          /\ delete_next_recording
          /\ ev.stopCalls = 1
          /\ is_connected(Cur) => ev.stopReqs = 1
    /\ (ev.kind = "STOPPED" /\ ev.take = "discard_play") =>
          /\ ev.deleted
          /\ ~ev.finalized

C7_Witness ==
    /\ ev.kind = "STOPPED"
    /\ ev.take = "discard_play"
    /\ ev.deleted
    /\ ~delete_next_recording

C9_StopPlayKeepsTake ==
    /\ (/\ ev.kind = "wait_stop"
        /\ events # <<>>
        /\ Last(events).take = "stop_play") => ~delete_next_recording
    /\ (ev.kind = "STOPPED" /\ ev.take = "stop_play") =>
          /\ ev.finalized
          /\ ~ev.deleted

\* C10 as stated: no start request goes to the backend while an earlier start
\* request is still open, that is with neither a stop request nor a STOPPED
\* event since.
C10_NoDoubleStart == ~(ev.startReqs > 0 /\ ev.openBefore)

\* C11: once three probes of the connection thread in a row have failed, the
\* controller is in the state Lost (connection_lost set, is_connected false);
\* an attempt that succeeds leaves it Connected and has registered the event
\* callback exactly once, and an attempt that fails has registered nothing.
C11_LostThenReconnected ==
    /\ failed_probes >= 3 => (connection_lost /\ ~is_connected(Cur))
    /\ (ev.kind \in {"connect", "reconnect"} /\ ev.ok) =>
          /\ is_connected(Cur)
          /\ ev.registered = 1
          /\ failed_probes = 0
    /\ (ev.kind \in {"connect", "reconnect"} /\ ~ev.ok) =>
          /\ connection_lost
          /\ ev.registered = 0

C11_Witness ==
    /\ ev.kind = "reconnect"
    /\ ev.probesBefore >= 3
    /\ ev.ok
    /\ ev.registered = 1
    /\ is_connected(Cur)

DefaultResult(name) == IF name = "get_scene_list" THEN <<>> ELSE None

\* C12: a public call of the controller made while it is not connected sends
\* no request to the backend, raises nothing, returns its default (none, the
\* empty list for get_scene_list) and leaves connection_lost, the clients and
\* recording_active as they were.
C12_NoOpWhenNotConnected ==
    [][ (ev'.kind \in PublicCalls /\ ~is_connected(Cur)) =>
          /\ ev'.reqs = 0
          /\ ev'.startReqs = 0
          /\ ev'.stopReqs = 0
          /\ ev'.raised = "none"
          /\ ev'.result = DefaultResult(ev'.kind)
          /\ connection_lost' = connection_lost
          /\ clients' = clients
          /\ recording_active' = recording_active
          /\ backendVars' = backendVars ]_vars

C12_Witness ==
    /\ ev.kind = "stop_recording"
    /\ ev.stopCalls = 1
    /\ ev.reqs = 0
    /\ recording_active
    /\ connection_lost
    /\ clients

\* C13 as stated: no failure inside a tick of detect_and_control ends the
\* loop of Application.run; the loop is left only on a requested shutdown,
\* which no step here requests.
C13_TickLoopSurvives == ~shutdown_requested

\* C16 as stated: each of the shared flags (recording_active, connection_lost,
\* delete_next_recording, restart_after_stop) is changed by one thread only.
C16_SingleWriter == \A f \in SharedFlags : Cardinality(writers[f]) <= 1

\* C14: a tick that finds no game in focus where the tick before had one,
\* while recording_active, takes the discard of a lost focus: delete_next is
\* set and stop is called in that tick, the request going out if the
\* controller is connected; and when the completion event of the take that
\* this stop ended is delivered (an established recording: no backend event
\* undelivered when the stop request was accepted), the file is deleted and
\* not finalized.
C14_FocusLossDiscards ==
    [][ /\ (/\ ev'.kind = "tick"
             /\ current_game # NoGame
             /\ current_game' = NoGame
             /\ recording_active) =>
               /\ ev'.act = "focus_lost"
               /\ delete_next_recording'
               /\ ev'.stopCalls = 1
               /\ is_connected(Cur) => ev'.stopReqs = 1
        /\ (ev'.kind = "STOPPED" /\ ev'.take = "focus_lost") =>
               /\ ev'.deleted
               /\ ~ev'.finalized ]_vars

C14_Witness ==
    /\ ev.kind = "STOPPED"
    /\ ev.take = "focus_lost"
    /\ ev.deleted
    /\ current_game = NoGame
    /\ ~recording_active

\* C15 as stated: while a STOPPED event is on its way to the controller, the
\* tick thread acts on no start_play, restart or discard_play transition.
C15_OneCycleInFlight ==
    \A i \in 1..Len(events) :
        events[i].output_state = "STOPPED" =>
            events[i].then \notin {"start_play", "restart", "discard_play"}

\* C17: a tick on which the focused game changes or the focus is lost leaves
\* the tape and the match set empty and the registered patterns as they
\* were, no confirmed state, no timestamp on record, and the detectors reset:
\* with no game in focus both are reset, otherwise the detector of the game
\* in focus holds a run of one (the sample of this tick) and the other is
\* reset.
C17_FocusChangeClears ==
    [][ (ev'.kind = "tick" /\ current_game' # current_game) =>
          /\ machine'.history = <<>>
          /\ get_last_matches(machine') = <<>>
          /\ machine'.patterns = machine.patterns
          /\ machine'.patterns = setup_transition_patterns
          /\ current_state' = None
          /\ previous_state' = None
          /\ last_playing_timestamp' = NoTs
          /\ IF current_game' = NoGame
             THEN /\ pixel_detector' = ResetDetector
                  /\ log_detector' = ResetDetector
             ELSE IF IsPixelGame(current_game')
             THEN /\ pixel_detector'.n = 1
                  /\ log_detector' = ResetDetector
             ELSE /\ log_detector'.n = 1
                  /\ pixel_detector' = ResetDetector ]_vars

C17_Witness ==
    /\ ev.kind = "tick"
    /\ current_game = "log"
    /\ machine.history = <<>>
    /\ log_detector = [last |-> "Select", n |-> 1]
    /\ pixel_detector = ResetDetector
    /\ recording_active

\* C18 as stated: a tick on which the focused game changes or the focus is
\* lost leaves restart_after_stop reset, and a STOPPED event that was on its
\* way when the focus was lost starts no recording.
C18_FocusChangeResetsRestart ==
    [][ /\ (ev'.kind = "tick" /\ current_game' # current_game) =>
               ~restart_after_stop'
        /\ (ev'.kind = "STOPPED" /\ ev'.then = "focus_lost") =>
               ev'.startCalls = 0 ]_vars

\* C19: a tick of a log game whose confirmed state is Playing and whose
\* debounced detection is Playing again: when the timestamp read from the
\* log differs from the one on record, update_state hands on a transition
\* Playing to Playing that carries restart; when it equals the one on record,
\* when none is on record or none is read, no transition is handed on.
C19_RestartOnNewTimestamp ==
    [][ \A ts2 \in Timestamps \cup {NoTs}, ts3 \in Timestamps \cup {NoTs} :
          (/\ current_game = "log"
           /\ current_state = "Playing"
           /\ log_detector.last = "Playing"
           /\ log_detector.n + 1 >= detection_threshold
           /\ ev'.kind = "tick"
           /\ log_detector'.last = "Playing"
           /\ Tick("log", "Playing", ts2, ts3)) =>
              IF /\ ts2 # NoTs
                 /\ last_playing_timestamp # NoTs
                 /\ ts2 # last_playing_timestamp
              THEN /\ ev'.branch = "restart"
                   /\ ev'.transition.is
                   /\ ev'.transition.from_state = "Playing"
                   /\ ev'.transition.to_state = "Playing"
                   /\ "restart" \in ToSet(ev'.transition.triggered_patterns)
              ELSE /\ ev'.branch = "none"
                   /\ ~ev'.transition.is ]_vars

C19_Witness ==
    /\ ev.kind = "tick"
    /\ ev.branch = "restart"
    /\ current_game = "log"
    /\ last_playing_timestamp = "t2"
    /\ machine.history = <<"Select", "Playing">>
    /\ ev.transition.triggered_patterns = <<"restart">>

\* C20 as stated: for a pixel game a run of threshold samples in which no
\* state matches confirms Unknown, which is then the current state and the
\* top of the tape.
C20_NoneRunConfirmsUnknown ==
    (/\ current_game = "pix"
     /\ pixel_detector.last = None
     /\ pixel_detector.n >= detection_threshold) =>
        /\ current_state = "Unknown"
        /\ machine.history # <<>>
        /\ Last(machine.history) = "Unknown"

\* C21 as stated: a tick of a log game whose sample matches no state does not
\* increase the run length of the log detector, hands on no transition and
\* pushes nothing onto the tape.
C21_LogNoneNeverCounts ==
    [][ (/\ ev'.kind = "tick"
         /\ current_game = "log"
         /\ current_game' = "log"
         /\ log_detector'.last = None) =>
           /\ log_detector'.n <= log_detector.n
           /\ ~ev'.transition.is
           /\ machine'.history = machine.history ]_vars

\* C22 as stated: with the settle delay of config.toml positive, a tick in
\* which the scene processor has just recorded a scene switch (no time has
\* passed since, so delay_remaining is the whole delay) sends no start
\* request to the backend; the start is left to the timer.
C22_StartWaitsForSettle ==
    (ev.kind = "tick" /\ ev.sceneTimed /\ ev.sceneReqs > 0) => ev.startReqs = 0

\* the scene C23 names for a table, a game short id and a state
ClaimedScene(tbl, game, state) ==
    IF game \in DOMAIN tbl /\ state \in DOMAIN tbl[game] THEN tbl[game][state]
    ELSE IF game \in DOMAIN tbl /\ "Default" \in DOMAIN tbl[game]
    THEN tbl[game]["Default"]
    ELSE IF "Default" \in DOMAIN tbl /\ "Default" \in DOMAIN tbl["Default"]
    THEN tbl["Default"]["Default"]
    ELSE None

\* C23 as stated: for the scenes table in force, every game short id and
\* every state, get_scene_name fails for none of them and gives the entry of
\* (game, state), else that of (game, Default), else the global Default, else
\* no scene.
C23_SceneFallback ==
    \A game \in {"pix", "log", ""} :
        \A state \in {"Select", "Playing", "Result", "Default"} :
            /\ ~get_scene_name(Cur, game, state).raised
            /\ get_scene_name(Cur, game, state).scene
                   = ClaimedScene(SceneTable(scenes), game, state)

C25_ShutdownStopsLoop ==
    [][ shutdown_called => ev'.kind \notin {"probe", "reconnect"} ]_vars

\* C26: a step of the connection thread, the tick thread or the event thread
\* that sends a request while the backend does not answer leaves the
\* controller not connected (connection_lost set); and if from some point on
\* the backend answers and shutdown() is never called, the controller is
\* connected again and again, however often a failed request loses the
\* connection in between.
C26_LostThenRetried ==
    /\ [][ (ev'.reqs > 0 /\ ~backendUp /\ ~backendUp') =>
              (connection_lost' /\ ~(clients' /\ ~connection_lost')) ]_vars
    /\ (<>[]backendUp /\ []~shutdown_called) => []<>(clients /\ ~connection_lost)

C26_Witness ==
    /\ ev.kind = "reconnect"
    /\ ev.ok
    /\ ev.probesBefore >= 2
    /\ is_connected(Cur)
    /\ ~shutdown_called

\* the last n elements of a sequence
LastN(seq, n) ==
    IF Len(seq) > n THEN SubSeq(seq, Len(seq) - n + 1, Len(seq)) ELSE seq

\* C27: after any pushes and clears of a machine the tape is no longer than
\* its capacity and is the last capacity states of those pushed since the
\* last clear (repeats of the state before left out), oldest first; the
\* coordinator's machine has capacity 3.
C27_TapeIsBoundedFifo ==
    /\ Len(machine.history) <= max_history
    /\ machine.history = LastN(pushed, max_history)
    /\ StateMachineInit(coordinator_max_history) = 3

C27_Witness ==
    /\ max_history = 3
    /\ Len(pushed) = 5
    /\ machine.history = SubSeq(pushed, 3, 5)
    /\ machine.history[1] # pushed[1]

\* C28: a tick with no game in focus that follows a tick with no game in
\* focus changes nothing: tape, context, detectors (no sample is taken),
\* the recording flags, the controller and the backend stay as they are, no
\* transition is handed on and no request of any kind is sent.
C28_IdleTickDoesNothing ==
    [][ (ev'.kind = "tick" /\ current_game = NoGame /\ current_game' = NoGame) =>
          /\ UNCHANGED <<tapeVars, ctxVars, detVars, recVars, obsVars,
                         backendVars, tickPc, shutdown_requested>>
          /\ ev'.reqs = 0
          /\ ev'.sceneReqs = 0
          /\ ev'.startCalls = 0
          /\ ev'.stopCalls = 0
          /\ ev'.act = "none"
          /\ ~ev'.transition.is ]_vars

C28_Witness ==
    /\ ev.kind = "tick"
    /\ ev.act = "none"
    /\ current_game = NoGame
    /\ delete_next_recording
    /\ events # <<>>
    /\ is_connected(Cur)

\* the games of a kind in list order, as positions
RECURSIVE positions_of(_, _, _)
positions_of(games, kind, k) ==
    IF k > Len(games) THEN <<>>
    ELSE IF games[k].kind = kind THEN <<k>> \o positions_of(games, kind, k + 1)
    ELSE positions_of(games, kind, k + 1)

\* the descriptors C29 has tried in their order: none without a window, the
\* log games first when the process in focus is Java, then the pixel games
CandidateOrder(games, focus) ==
    IF focus.window_title = <<>> THEN <<>>
    ELSE (IF focus.is_java THEN positions_of(games, "log", 1) ELSE <<>>)
             \o positions_of(games, "pixel", 1)

\* C29: get_active_game gives the first descriptor of that order that matches
\* the window in focus and none when there is no such descriptor; a log game
\* is given only when the process in focus is Java.
C29_FirstStructuralMatch ==
    LET order == CandidateOrder(gd.games, gd.focus)
        hits == {i \in 1..Len(order) : matches_focused(gd.games[order[i]], gd.focus)}
    IN  /\ gd.active = IF hits = {} THEN 0
                       ELSE order[CHOOSE i \in hits : \A j \in hits : i <= j]
        /\ (gd.active # 0 /\ gd.games[gd.active].kind = "log") => gd.focus.is_java

C29_Witness ==
    /\ Len(gd.games) = 2
    /\ gd.games[1].kind = "pixel"
    /\ gd.games[2].kind = "log"
    /\ matches_focused(gd.games[1], gd.focus)
    /\ matches_focused(gd.games[2], gd.focus)
    /\ gd.focus.is_java
    /\ gd.active = 2

\* C30: after any pushes and clears the tape holds no two equal states side
\* by side; so the registered pattern (Playing, Playing) never matches its
\* tail, and whenever get_last_matches reports restart the tape ends with
\* Playing, Unknown, Playing.
C30_NoAdjacentRepeat ==
    /\ \A i \in 1..(Len(machine.history) - 1) :
           machine.history[i] # machine.history[i + 1]
    /\ \E k \in 1..Len(machine.patterns) :
           machine.patterns[k] = TransitionPattern("restart", <<"Playing", "Playing">>)
    /\ ~history_ends_with(machine.history, <<"Playing", "Playing">>)
    /\ "restart" \in ToSet(get_last_matches(machine)) =>
           history_ends_with(machine.history, <<"Playing", "Unknown", "Playing">>)

C30_Witness ==
    /\ get_last_matches(machine) = <<"restart">>
    /\ machine.history = <<"Playing", "Unknown", "Playing">>
    /\ pushed = <<"Select", "Playing", "Unknown", "Playing">>

\* the top of a tape, None for the empty tape
TopOf(h) == IF h = <<>> THEN None ELSE h[Len(h)]

\* C31: after any calls of update_game, update_state and clear_context the
\* confirmed state is the top of the tape, none exactly when the tape is
\* empty; and whenever a call changes the confirmed or the previous state,
\* either both are none afterwards (the context was cleared) or the previous
\* state is the confirmed state from before the call.
C31_CurrentIsTopOfTape ==
    /\ current_state = TopOf(machine.history)
    /\ [][ /\ current_state' = TopOf(machine'.history)
           /\ (current_state' = None) <=> (machine'.history = <<>>)
           /\ (current_state' # current_state \/ previous_state' # previous_state
                  \/ ev'.transition.is) =>
                  \/ current_state' = None /\ previous_state' = None
                  \/ previous_state' = current_state ]_vars

C31_Witness ==
    /\ ev.kind = "update_state"
    /\ ev.branch = "restart"
    /\ current_state = "Playing"
    /\ previous_state = "Playing"
    /\ machine.history = <<"Result", "Unknown", "Playing">>

\* C32: every delivery of a recording-stopped event ends in exactly one of
\* the two outcomes for the completed file: deletion when delete_next was set
\* at delivery, the hand-over to the recording manager otherwise; and
\* delete_next is false once the handler has returned.
C32_DeleteXorFinalize ==
    [][ ev'.kind = "STOPPED" =>
           /\ ev'.deleted <=> delete_next_recording
           /\ ev'.finalized <=> ~delete_next_recording
           /\ ev'.deleted # ev'.finalized
           /\ ~delete_next_recording' ]_vars

C32_Witness ==
    /\ ev.kind = "STOPPED"
    /\ ev.finalized
    /\ ~ev.deleted
    /\ ~delete_next_recording
    /\ ~recording_active

\* C33: in the monolithic DetectionEngine the worker of a completion event
\* deletes the file iff delete_next was true when the event was delivered and
\* finalizes it otherwise, however the worker is scheduled against the
\* handler's clearing of delete_next.
C33_WorkerUsesFlagAtDelivery ==
    engine.last.ran =>
        /\ engine.last.deleted <=> engine.last.at_delivery
        /\ engine.last.finalized <=> ~engine.last.at_delivery

\* C34: for a log game a restart is reported at most once per Playing
\* timestamp: once a restart has been reported, no later update reports
\* another while the latest Playing entry of the log is the same, also when
\* the read between the comparison and the update of the recorded timestamp
\* returns no entries.
C34_OneRestartPerTimestamp ==
    [][ (ev'.kind = "update_state" /\ ev'.branch = "restart") =>
            ~restart_seen ]_vars

C36_SelectOrResultStops ==
    [][ ( /\ ev'.kind = "tick"
          /\ recording_active
          /\ obsRec
          /\ is_connected(Cur)
          /\ current_state' \in {"Select", "Result"}
          /\ current_state' # current_state ) =>
            \/ ev'.stopReqs > 0
            \/ tickPc' = "result_wait" ]_vars

\* C37: can_save_lastplay returns true only if no recording is active, a
\* lastplay file exists and the confirmed state is none, Select or Result;
\* with a recording active or Playing confirmed it returns false.
C37_CanSaveOnlyWhenIdle ==
    ev.kind = "can_save" =>
        /\ ev.can_save =>
              /\ ~recording_active
              /\ ev.has_lastplay
              /\ current_state \in {None, "Select", "Result"}
        /\ (recording_active \/ current_state = "Playing") => ~ev.can_save

C37_Witness ==
    /\ ev.kind = "can_save"
    /\ ev.has_lastplay
    /\ ~ev.can_save
    /\ ~recording_active
    /\ current_state = "Playing"

NoRepeat(seq) == \A i, j \in 1..Len(seq) : seq[i] = seq[j] => i = j

\* C38: registering a handler again leaves the list as it is, so no handler
\* is registered twice; a recording-stopped event calls each registered
\* handler exactly once in registration order, whichever of them raise; no
\* exception of a handler leaves the controller, and the connection state
\* is as before.
C38_FanOutIsolatesHandlers ==
    [][ /\ NoRepeat(event_handlers')
        /\ ev'.kind = "register_event_handler" =>
              /\ (\E i \in 1..Len(event_handlers) :
                      event_handlers[i] = ev'.result) =>
                    event_handlers' = event_handlers
              /\ \E i \in 1..Len(event_handlers') :
                      event_handlers'[i] = ev'.result
        /\ ev'.kind = "STOPPED" =>
              /\ fan'.calls = event_handlers
              /\ ~fan'.escaped
              /\ connection_lost' = connection_lost
              /\ clients' = clients ]_vars

C38_Witness ==
    /\ ev.kind = "STOPPED"
    /\ event_handlers = <<"h2", "h1", "h3">>
    /\ fan.calls = <<"h2", "h1", "h3">>
    /\ fan.logged = 2
    /\ connection_lost

====
